---- MODULE Spec2Model ----
(***************************************************************************)
(* State-machine model of the rrweb recording engine:                      *)
(*   packages/rrweb/src/record/index.ts        record(), wrappedEmit,      *)
(*                                             takeFullSnapshot, facade    *)
(*   packages/rrweb/src/record/observers/visibility/visibility-manager.ts  *)
(*   packages/rrweb-snapshot/src/utils.ts      Mirror                      *)
(*   packages/plugins/rrweb-plugin-sequential-id-record/src/index.ts       *)
(*   packages/web-extension/src/utils/apiClient.ts   APIClient             *)
(* The mutation buffer, the observer set, snapshot() and genId() are not   *)
(* part of the sources at hand; they are modelled from the specification   *)
(* (sections 3, 4.6, 4.8) and marked as such where they are defined.       *)
(*                                                                         *)
(* Every handler is a pure operator over a record of the whole program     *)
(* state (Cur); an action applies one handler and commits the result.      *)
(* A thrown exception is the field "thrown": once set, the rest of the     *)
(* handler is skipped, and what was delivered before stays delivered.      *)
(***************************************************************************)
EXTENDS Integers, Sequences, FiniteSets, TLC

\* ---------------------------------------------------------------- bounds
\* largest id handed to the mirror by its callers
MaxId == 2
\* ids the other users of a shared getId callback draw from it
MaxOtherIds == 2
\* requests the callers of the API client make
MaxRequests == 2
\* longest stream followed per recording, in the recorder's life
MaxSink == 4
\* longest custom-event queue
MaxQueue == 1
\* number of record() calls in one behaviour
MaxRecords == 2
\* longest stream followed where the clock runs
MaxSinkCheckout == 5
\* last value of the clock
MaxTime == 2
\* longest stream followed in the checkoutEveryNth scenario
MaxSinkNth == 18
\* largest checkoutEveryNth of the scenario
MaxNth == 5
\* events other than plain mutations in the checkoutEveryNth scenario
MaxExtras == 1
\* longest custom-event queue where the order of the queue is followed
MaxQueueFifo == 2
\* longest stream followed where the order of the queue is followed
MaxSinkQueue == 6
\* the sink throws at its first call, or at its second, ... or at this one
MaxFuse == 2
\* longest input value masked
MaxLen == 2
\* last value of the clock where element visibility is followed
MaxTimeVisibility == 1
\* longest stream followed where element visibility is followed
MaxSinkVisibility == 3
\* last value of the clock where the pacing of visibility events is followed
MaxTimePacing == 4
\* events delivered where snapshots can fail
MaxSinkAbort == 6
\* handler invocations of the background script followed
MaxInvocations == 4
\* handler invocations followed where sessions are saved
MaxInvocationsSave == 3
\* events the background script receives from content scripts
MaxEvents == 2
\* handler invocations, events and last value of Date.now() (the first is 1)
\* where a recording is paused and resumed
MaxInvocationsResume == 3
MaxEventsResume == 1
MaxClock == 2

\* the ids of the browser's tabs
Tabs == {1, 2}

\* ------------------------------------------------------ program constants
\* visibility-manager.ts:60  threshold default 0.5, in percent
Threshold == 50
\* visibility-manager.ts:61  sensitivity default 0.05, in percent
Sensitivity == 5


VARIABLES
  opts,          \* the options record() is called with
  bound,         \* the bounds of the behaviour followed
  readyState,    \* document.readyState
  page,          \* per element: intersection ratio (percent), style visibility,
                 \* and its child elements
  now,           \* the clock (nowTimestamp / performance.now)
  sink,          \* events delivered to emit, in delivery order
  posted,        \* messages posted to window.parent, in posting order
  emitFuse,      \* the sink: 0 never throws, n > 0 throws at the n-th next call
  outcome,       \* how the last operation ended, as its caller sees it
  wrappedEmitGen,            \* which record() call's closure is wrappedEmit (0: none)
  lastFullSnapshotEvent,     \* index.ts:200
  incrementalSnapshotCount,  \* index.ts:201
  recentVisibilityChanges,   \* index.ts:202
  recording,                 \* index.ts:52
  customEventQueue,          \* index.ts:54
  errorHandlerRegistered,    \* registerErrorHandler / unregisterErrorHandler
  idNodeMap, nodeMetaMap,    \* Mirror (rrweb-snapshot utils.ts:180)
  nextId,                    \* genId counter
  attached,      \* record() calls whose observers are installed
  listening,     \* record() calls waiting for DOMContentLoaded / load
  handles,       \* record() calls that returned a stop handle
  bufExists, bufFrozen, bufLocked, bufPending,   \* mutationBuffers
  visibilityManager,         \* the VisibilityManager instance (index.ts:370)
  maskCall,      \* the last call of maskInputValue: its arguments and its result
  lastCall,      \* the last call made on record.mirror: the method and its arguments
  localId,       \* the counter of the sequential-id plugin instance
  callbackId,    \* the counter behind the getId callback given to that plugin
  apiSettings,   \* settingsManager.getSettings().apiSettings (web-extension)
  isRefreshing, refreshSubscribers,   \* APIClient (apiClient.ts:31-32)
  requests,      \* the requests made through APIClient.axiosInstance
  server,        \* the API server: the tokens it accepts and hands out
  documentAccessible,  \* whether snapshot(document) can serialize the document
  recorderStatus,      \* web-extension background/index.ts:33
  events,              \* background/index.ts:30
  handlers,            \* the handler invocations of the background script that
                       \* wait at an await, in the order they were made
  invoked,             \* how many handler invocations were made
  sessions,            \* what addSession and sendSession were given, per Stop
  browser,             \* the tabs: which are open, which one is active, in
                       \* which the content script records; how many events
                       \* the content scripts have sent; isFirefox()
  dateNow              \* Date.now()

vars == << opts, bound, readyState, page, now, sink, posted, emitFuse, outcome,
           wrappedEmitGen,
           lastFullSnapshotEvent, incrementalSnapshotCount,
           recentVisibilityChanges, recording, customEventQueue,
           errorHandlerRegistered, idNodeMap, nodeMetaMap, nextId, attached,
           listening, handles, bufExists, bufFrozen, bufLocked, bufPending,
           visibilityManager, maskCall, lastCall, localId, callbackId,
           apiSettings, isRefreshing, refreshSubscribers, requests, server,
           documentAccessible, recorderStatus, events, handlers, invoked,
           sessions, browser, dateNow >>

\* the state of the web extension's background script and of the browser
backgroundVars ==
  << recorderStatus, events, handlers, invoked, sessions, browser, dateNow >>

\* the state of the web extension's API client
apiVars == << apiSettings, isRefreshing, refreshSubscribers, requests, server >>

\* the state of the recorder
recorderVars ==
  << opts, bound, readyState, page, now, sink, posted, emitFuse, outcome,
     wrappedEmitGen, lastFullSnapshotEvent, incrementalSnapshotCount,
     recentVisibilityChanges, recording, customEventQueue,
     errorHandlerRegistered, idNodeMap, nodeMetaMap, nextId, attached,
     listening, handles, bufExists, bufFrozen, bufLocked, bufPending,
     visibilityManager, maskCall, lastCall, localId, callbackId >>

\* the elements of the document
Nodes == DOMAIN page

\* ----------------------------------------------------------------- events
\* "trig" is history: for the Meta and the FullSnapshot of one takeFullSnapshot
\* call, who asked for it and the values the checkout predicates were computed
\* from.  "proc" is what the plugins and packFn have made of the event: the
\* marks they left on it, in the order they were applied.  "mutations" is
\* data.mutations of a VisibilityMutation event, keyed by element.  "props" is
\* what a plugin has assigned to the event: pairs of a key and a value.
NoTrig == [cause |-> "-", cnt |-> 0, dt |-> 0, vis |-> 0]
InitTrig == [cause |-> "init", cnt |-> 0, dt |-> 0, vis |-> 0]
ManualTrig(cnt, dt, vis) == [cause |-> "manual", cnt |-> cnt, dt |-> dt, vis |-> vis]

Event(type, src, attach, k, trig) ==
  [type |-> type, src |-> src, attach |-> attach, k |-> k, trig |-> trig,
   chk |-> "undef", ts |-> 0, proc |-> << >>, props |-> {}, mutations |-> << >>]

NoEvent == Event("None", "-", FALSE, 0, NoTrig)
MetaEvent(trig) == Event("Meta", "-", FALSE, 0, trig)
FullSnapshotEvent(trig) == Event("FullSnapshot", "-", FALSE, 0, trig)
DomContentLoadedEvent == Event("DomContentLoaded", "-", FALSE, 0, NoTrig)
LoadEvent == Event("Load", "-", FALSE, 0, NoTrig)
CustomEvent(tag) == Event("Custom", tag, FALSE, 0, NoTrig)
Incremental(src, attach, k) == Event("IncrementalSnapshot", src, attach, k, NoTrig)

\* ----------------------------------------------------------------- Mirror
Mirror_getId(s, n) ==
  IF n \in DOMAIN s.nodeMetaMap THEN s.nodeMetaMap[n] ELSE -1

Mirror_getNode(s, id) ==
  IF id \in DOMAIN s.idNodeMap THEN s.idNodeMap[id] ELSE 0

Mirror_has(s, id) == id \in DOMAIN s.idNodeMap

Mirror_hasNode(s, n) == n \in DOMAIN s.nodeMetaMap

Mirror_add(s, n, id) ==
  [s EXCEPT !.idNodeMap = [i \in DOMAIN @ \cup {id} |-> IF i = id THEN n ELSE @[i]],
            !.nodeMetaMap = [m \in DOMAIN @ \cup {n} |-> IF m = n THEN id ELSE @[m]]]

\* utils.ts:231-238  the meta of the node registered under id, if there is
\* one, becomes the meta of n as well
Mirror_replace(s, id, n) ==
  LET oldNode == Mirror_getNode(s, id)
      s1 == IF oldNode # 0 /\ oldNode \in DOMAIN s.nodeMetaMap
            THEN [s EXCEPT !.nodeMetaMap =
                     [m \in DOMAIN @ \cup {n} |-> IF m = n THEN @[oldNode] ELSE @[m]]]
            ELSE s
  IN [s1 EXCEPT !.idNodeMap = [i \in DOMAIN @ \cup {id} |-> IF i = id THEN n ELSE @[i]]]

\* the nodes of the subtree of n, n included
RECURSIVE Subtree(_)
Subtree(n) == {n} \cup UNION {Subtree(c) : c \in page[n].childNodes}

\* the elements that are no element's child: each is a child of document.body
\* or the top of a detached subtree
Roots == {n \in Nodes : \A m \in Nodes : n \notin page[m].childNodes}

\* doc.querySelectorAll('*')
InDocument == UNION {Subtree(r) : r \in {n \in Roots : page[n].connected}}

\* variant of removeNodeFromMap: the child nodes are left alone
Mirror_removeNodeFromMap_Shallow(s, n) ==
  [s EXCEPT !.idNodeMap = [i \in DOMAIN @ \ {Mirror_getId(s, n)} |-> @[i]]]

\* utils.ts:207-216  idNodeMap.delete(getId(m)) for n and, recursively, for
\* every child node
Mirror_removeNodeFromMap(s, n) ==
  [s EXCEPT !.idNodeMap =
     [i \in DOMAIN @ \ {Mirror_getId(s, m) : m \in Subtree(n)} |-> @[i]]]

Mirror_reset(s) ==
  [s EXCEPT !.idNodeMap = << >>, !.nodeMetaMap = << >>]

\* snapshot(document, {mirror, ...}): every node of the document is registered
\* with the mirror, under the id it already has or a fresh one.
RECURSIVE SerializeNodes(_, _)
SerializeNodes(s, n) ==
  IF n > Cardinality(Nodes) THEN s
  ELSE IF Mirror_hasNode(s, n)
       THEN SerializeNodes(Mirror_add(s, n, Mirror_getId(s, n)), n + 1)
       ELSE SerializeNodes([Mirror_add(s, n, s.nextId) EXCEPT !.nextId = @ + 1], n + 1)

\* d: the time the serialization takes; no node comes back (and the mirror
\* is left as it was) when the document cannot be serialized
Snapshot(s, d) ==
  IF documentAccessible
  THEN [SerializeNodes(s, 1) EXCEPT !.now = @ + d, !.node = TRUE]
  ELSE [s EXCEPT !.now = @ + d, !.node = FALSE]

\* ------------------------------------------------------- the emit pipeline
RECURSIVE WrappedEmit(_, _, _, _)
RECURSIVE AfterEmit(_, _, _)
RECURSIVE TakeFullSnapshot(_, _, _, _)
RECURSIVE BufferEmit(_, _)

\* index.ts:285  wrappedMutationEmit
WrappedMutationEmit(s, attach, d) ==
  WrappedEmit(s, Incremental("Mutation", attach, 0), "undef", d)

\* MutationBuffer.emit: nothing while frozen or locked; otherwise the buffered
\* mutations go out as one Mutation event (building it takes d).
BufferEmit(s, d) ==
  IF s.thrown \/ s.bufFrozen \/ s.bufLocked \/ ~s.bufPending THEN s
  ELSE WrappedMutationEmit([s EXCEPT !.bufPending = FALSE, !.now = @ + d], FALSE, d)

\* MutationBuffer.processMutations: emitted at once, or kept while frozen or locked
ProcessMutations(s, d) ==
  IF s.bufFrozen \/ s.bufLocked THEN [s EXCEPT !.bufPending = TRUE]
  ELSE WrappedMutationEmit(s, FALSE, d)

\* the observers during snapshot(): where the page changes while it is
\* serialized, the mutation buffer is handed the mutations
WhileSerializing(s, d) ==
  IF opts.mutatesWhileSerializing /\ s.bufExists THEN ProcessMutations(s, d) ELSE s

\* mutationBuffers.forEach((buf) => buf.unfreeze())
UnfreezeBuffers(s, d) == BufferEmit([s EXCEPT !.bufFrozen = FALSE], d)

\* mutationBuffers.forEach((buf) => buf.lock())
LockBuffers(s) == [s EXCEPT !.bufLocked = s.bufExists]

\* mutationBuffers.forEach((buf) => buf.unlock())
UnlockBuffers(s, d) ==
  IF s.thrown THEN s ELSE BufferEmit([s EXCEPT !.bufLocked = FALSE], d)

\* index.ts:116-118
InEmittingFrame ==
  IF opts.recordCrossOriginIframes THEN opts.frame = "top" ELSE TRUE

\* index.ts:120-130  reading window.parent.document throws iff the parent is
\* cross-origin
PassEmitsToParent == ~InEmittingFrame /\ opts.frame = "crossOriginChild"

\* plugins/rrweb-plugin-sequential-id-record/src/index.ts:14
PLUGIN_NAME == "rrweb/sequential-id@1"

\* the event handed to eventProcessor, with the counters its plugins count in:
\* localId of the sequential-id plugin and the counter behind its getId callback
Processing(s, e) == [event |-> e, localId |-> s.localId, callbackId |-> s.callbackId]

\* variant of the sequential-id plugin: the id is written before the counter
\* is advanced
PluginProcess_PostIncrement(plugin, p) ==
  IF plugin.name = PLUGIN_NAME
  THEN LET id == IF plugin.getId THEN p.callbackId ELSE p.localId
       IN [p EXCEPT !.event.props = {kv \in @ : kv[1] # plugin.key}
                                      \cup {<<plugin.key, id>>},
                    !.localId = IF plugin.getId THEN @ ELSE @ + 1,
                    !.callbackId = IF plugin.getId THEN @ + 1 ELSE @]
  ELSE [p EXCEPT !.event.proc = Append(@, plugin.name)]

\* plugin.eventProcessor(e) of a plugin that has one.  The sequential-id plugin
\* (sequential-id-record/src/index.ts:24-30) writes _options.getId() or
\* ++localId under its key; the getId callback is one that counts, as the one
\* shared between frames does.  Any other plugin rewrites the event it is
\* given, leaving its mark behind the marks already there.
PluginProcess(plugin, p) ==
  IF plugin.name = PLUGIN_NAME
  THEN LET id == IF plugin.getId THEN p.callbackId + 1 ELSE p.localId + 1
       IN [p EXCEPT !.event.props = {kv \in @ : kv[1] # plugin.key}
                                      \cup {<<plugin.key, id>>},
                    !.localId = IF plugin.getId THEN @ ELSE id,
                    !.callbackId = IF plugin.getId THEN id ELSE @]
  ELSE [p EXCEPT !.event.proc = Append(@, plugin.name)]

\* packFn(e)
PackFn(e) == [e EXCEPT !.proc = Append(@, "pack")]

\* variant of the plugin loop: the plugins are applied from the last declared to
\* the first
RECURSIVE ApplyPlugins_Reversed(_, _, _)
ApplyPlugins_Reversed(p, plugins, i) ==
  IF i > Len(plugins) THEN p
  ELSE ApplyPlugins_Reversed(IF plugins[Len(plugins) + 1 - i].eventProcessor
                             THEN PluginProcess(plugins[Len(plugins) + 1 - i], p)
                             ELSE p,
                             plugins, i + 1)

\* index.ts:208-212  for (const plugin of plugins || [])
RECURSIVE ApplyPlugins(_, _, _)
ApplyPlugins(p, plugins, i) ==
  IF i > Len(plugins) THEN p
  ELSE ApplyPlugins(IF plugins[i].eventProcessor
                    THEN PluginProcess(plugins[i], p) ELSE p,
                    plugins, i + 1)

\* index.ts:213-219  the packing that follows the plugins
Pack(p) == IF opts.packFn /\ ~PassEmitsToParent THEN [p EXCEPT !.event = PackFn(@)] ELSE p

\* variant of eventProcessor: packFn is applied in every frame
EventProcessor_PacksAlways(p) ==
  IF opts.packFn
  THEN [ApplyPlugins(p, opts.plugins, 1) EXCEPT !.event = PackFn(@)]
  ELSE ApplyPlugins(p, opts.plugins, 1)

\* index.ts:207-221  eventProcessor
EventProcessor(p) == Pack(ApplyPlugins(p, opts.plugins, 1))

\* emit(event, isCheckout), the sink: it takes the event or throws
Emit(s, event, isCheckout) ==
  IF s.fuse = 1 THEN [s EXCEPT !.fuse = 0, !.thrown = TRUE]
  ELSE [s EXCEPT !.sink = Append(@, [event EXCEPT !.chk = isCheckout]),
                 !.fuse = IF @ > 1 THEN @ - 1 ELSE @]

\* window.parent.postMessage(message, '*')
PostMessage(s, event, isCheckout) ==
  [s EXCEPT !.posted = Append(@, [type |-> "rrweb", event |-> event,
                                  origin |-> "child", isCheckout |-> isCheckout])]

\* the recorder after eventProcessor has returned p
Processed(s, p) == [s EXCEPT !.localId = p.localId, !.callbackId = p.callbackId]

\* index.ts:242  emit?.(eventProcessor(e), isCheckout)
EmitProcessed(s, p, isCheckout) == Emit(Processed(s, p), p.event, isCheckout)

\* index.ts:245-251
PostProcessed(s, p, isCheckout) == PostMessage(Processed(s, p), p.event, isCheckout)

\* index.ts:240-252  emit?.(eventProcessor(e), isCheckout) in the emitting
\* frame, window.parent.postMessage(message, '*') in a pass-through frame
Deliver(s, e, isCheckout) ==
  IF InEmittingFrame
  THEN IF opts.emit
       THEN EmitProcessed(s, EventProcessor(Processing(s, e)), isCheckout)
       ELSE s
  ELSE IF PassEmitsToParent
  THEN PostProcessed(s, EventProcessor(Processing(s, e)), isCheckout)
  ELSE s

\* variant of wrappedEmit: the frozen buffers are flushed after the delivery of
\* the event instead of before it
WrappedEmit_FlushAfter(s, r, isCheckout, d) ==
  IF s.thrown THEN s
  ELSE LET e == [r EXCEPT !.ts = s.now]
           s1 == Deliver(s, e, isCheckout)
           s2 == IF /\ s.bufExists /\ s.bufFrozen
                    /\ e.type # "FullSnapshot"
                    /\ ~(e.type = "IncrementalSnapshot" /\ e.src = "Mutation")
                 THEN UnfreezeBuffers(s1, d)
                 ELSE s1
       IN AfterEmit(s2, e, d)

\* index.ts:223-283
WrappedEmit(s, r, isCheckout, d) ==
  IF s.thrown THEN s
  ELSE LET e == [r EXCEPT !.ts = s.now]
           s1 == IF /\ s.bufExists /\ s.bufFrozen
                    /\ e.type # "FullSnapshot"
                    /\ ~(e.type = "IncrementalSnapshot" /\ e.src = "Mutation")
                 THEN UnfreezeBuffers(s, d)
                 ELSE s
       IN IF s1.thrown THEN s1 ELSE AfterEmit(Deliver(s1, e, isCheckout), e, d)

\* variant of exceedCount: > instead of >=
ExceedCount_Strict(s, c) == opts.checkoutEveryNth # 0 /\ c > opts.checkoutEveryNth

\* index.ts:267-273
ExceedCount(s, c) == opts.checkoutEveryNth # 0 /\ c >= opts.checkoutEveryNth
ExceedTime(s, e) ==
  opts.checkoutEveryNms # 0 /\ e.ts - s.last.ts > opts.checkoutEveryNms
ExceedVisibility(s) ==
  opts.checkoutEveryNvm # 0 /\ s.vis >= opts.checkoutEveryNvm

\* variant of the tail of wrappedEmit: a FullSnapshot does not restart the
\* incremental count
AfterEmit_KeepsCount(s, e, d) ==
  IF s.thrown THEN s
  ELSE IF e.type = "FullSnapshot"
  THEN [s EXCEPT !.last = e]
  ELSE IF e.type = "IncrementalSnapshot"
  THEN IF e.src = "Mutation" /\ e.attach THEN s
       ELSE LET c == s.cnt + 1
                s1 == [s EXCEPT !.cnt = c]
            IN IF opts.checkoutEveryNms # 0 /\ s.last = NoEvent
               THEN [s1 EXCEPT !.thrown = TRUE]
               ELSE IF ExceedCount(s1, c) \/ ExceedTime(s1, e) \/ ExceedVisibility(s1)
                    THEN TakeFullSnapshot(
                           [s1 EXCEPT !.vis = IF ExceedVisibility(s1) THEN 0 ELSE @],
                           "true",
                           [cause |-> "checkout", cnt |-> c,
                            dt |-> e.ts - s1.last.ts, vis |-> s1.vis],
                           d)
                    ELSE s1
  ELSE s

\* index.ts:254-282; nothing of it runs when the delivery threw
AfterEmit(s, e, d) ==
  IF s.thrown THEN s
  ELSE IF e.type = "FullSnapshot"
  THEN [s EXCEPT !.last = e, !.cnt = 0]
  ELSE IF e.type = "IncrementalSnapshot"
  THEN IF e.src = "Mutation" /\ e.attach THEN s
       ELSE LET c == s.cnt + 1
                s1 == [s EXCEPT !.cnt = c]
            IN \* lastFullSnapshotEvent.timestamp of undefined: TypeError
               IF opts.checkoutEveryNms # 0 /\ s.last = NoEvent
               THEN [s1 EXCEPT !.thrown = TRUE]
               ELSE IF ExceedCount(s1, c) \/ ExceedTime(s1, e) \/ ExceedVisibility(s1)
                    THEN TakeFullSnapshot(
                           [s1 EXCEPT !.vis = IF ExceedVisibility(s1) THEN 0 ELSE @],
                           "true",
                           [cause |-> "checkout", cnt |-> c,
                            dt |-> e.ts - s1.last.ts, vis |-> s1.vis],
                           d)
                    ELSE s1
  ELSE s

\* variant of takeFullSnapshot: the Meta event is left out
TakeFullSnapshot_NoMeta(s, isCheckout, trig, d) ==
  IF s.thrown \/ ~opts.recordDOM THEN s
  ELSE LET s2 == WhileSerializing(Snapshot(LockBuffers(s), d), d)
           s3 == WrappedEmit(s2, FullSnapshotEvent(trig), isCheckout, d)
       IN UnlockBuffers(s3, d)

\* index.ts:406-487; isCheckout = false when not given.  The documents of the
\* model have no adopted style sheets (document.adoptedStyleSheets is empty).
\* Where snapshot() yields no node the function returns after the warning:
\* no FullSnapshot event, and the buffers are left locked.
\* variant of takeFullSnapshot: the buffers are unlocked as soon as snapshot()
\* has returned, before the FullSnapshot event is emitted
TakeFullSnapshot_UnlocksFirst(s, isCheckout, trig, d) ==
  IF s.thrown \/ ~opts.recordDOM THEN s
  ELSE LET s1 == WrappedEmit(s, MetaEvent(trig), isCheckout, d)
           s2 == IF s1.thrown THEN s1
                 ELSE WhileSerializing(Snapshot(LockBuffers(s1), d), d)
           s3 == UnlockBuffers(s2, d)
       IN WrappedEmit(s3, FullSnapshotEvent(trig), isCheckout, d)

\* index.ts:465-479  after snapshot() has returned
AfterSnapshot(s, isCheckout, trig, d) ==
  IF ~s.thrown /\ ~s.node THEN s
  ELSE UnlockBuffers(WrappedEmit(s, FullSnapshotEvent(trig), isCheckout, d), d)

\* index.ts:406-487  takeFullSnapshot
TakeFullSnapshot(s, isCheckout, trig, d) ==
  IF s.thrown \/ ~opts.recordDOM THEN s
  ELSE LET s1 == WrappedEmit(s, MetaEvent(trig), isCheckout, d)
           s2 == IF s1.thrown THEN s1
                 ELSE WhileSerializing(Snapshot(LockBuffers(s1), d), d)
       IN AfterSnapshot(s2, isCheckout, trig, d)

\* variant of the loop of flushCustomEventQueue: the queue is emitted from its
\* last event to its first
RECURSIVE EmitQueued_Lifo(_, _, _)
EmitQueued_Lifo(s, i, d) ==
  IF s.thrown \/ i > Len(s.queue) THEN s
  ELSE EmitQueued_Lifo(
         WrappedEmit(s, CustomEvent(s.queue[Len(s.queue) + 1 - i]), "undef", d),
         i + 1, d)

\* index.ts:489-494  flushCustomEventQueue
RECURSIVE EmitQueued(_, _, _)
EmitQueued(s, i, d) ==
  IF s.thrown \/ i > Len(s.queue) THEN s
  ELSE EmitQueued(WrappedEmit(s, CustomEvent(s.queue[i]), "undef", d), i + 1, d)

FlushCustomEventQueue(s, d) ==
  LET s1 == EmitQueued(s, 1, d)
  IN IF s1.thrown THEN s1 ELSE [s1 EXCEPT !.queue = << >>]

\* ---------------------------------------------------- VisibilityManager
Abs(x) == IF x < 0 THEN -x ELSE x

\* visibility-manager.ts:35-84  constructor (sampling is an object or absent)
NewVisibilityManager(g) ==
  [owner |-> g, frozen |-> FALSE, locked |-> FALSE,
   disabled |-> (opts.vmMode = "disabled"),
   elements |-> IF opts.vmMode = "disabled" THEN {} ELSE InDocument,
   previousState |-> << >>, buffer |-> << >>, hasInitialized |-> FALSE,
   debounceTimer |-> FALSE, debounceDue |-> 0, lastThrottleTime |-> 0,
   rafId |-> (opts.vmMode # "disabled")]

\* before the first record() call there is no instance
NoVisibilityManager ==
  [owner |-> 0, frozen |-> FALSE, locked |-> FALSE, disabled |-> FALSE,
   elements |-> {},
   previousState |-> << >>, buffer |-> << >>, hasInitialized |-> FALSE,
   debounceTimer |-> FALSE, debounceDue |-> 0, lastThrottleTime |-> 0,
   rafId |-> FALSE]

\* visibility-manager.ts:229-269  one element of computeVisibility
ComputeEntry(el, previous) ==
  LET hasOld == el \in DOMAIN previous
      currRatio == page[el].ratio
      isStyle == page[el].style
      prevRatio == IF hasOld THEN previous[el].intersectionRatio ELSE 0
      wasVisible == hasOld /\ previous[el].isStyleVisible /\ prevRatio > Threshold
      nowVisible == isStyle /\ currRatio > Threshold
      changed == \/ ~hasOld
                 \/ wasVisible # nowVisible
                 \/ (wasVisible # nowVisible /\ Abs(currRatio - prevRatio) > Sensitivity)
  IN IF changed
     THEN [isVisible |-> nowVisible, isStyleVisible |-> isStyle,
           intersectionRatio |-> currRatio]
     ELSE previous[el]

\* visibility-manager.ts:210-272
ComputeVisibility(elements, previous) ==
  [el \in elements |-> ComputeEntry(el, previous)]

\* visibility-manager.ts:111-114
EntryChanged(vm, state, el) ==
  \/ el \notin DOMAIN vm.previousState
  \/ vm.previousState[el].isVisible # state[el].isVisible
  \/ Abs(vm.previousState[el].intersectionRatio - state[el].intersectionRatio)
       > Sensitivity

\* visibility-manager.ts:156-161
FlushBuffer(s, d) ==
  IF s.thrown \/ DOMAIN s.vm.buffer = {} THEN s
  ELSE LET k == Cardinality(DOMAIN s.vm.buffer)
           s1 == [s EXCEPT !.vis = @ + k]
           s2 == WrappedEmit(s1, [Incremental("VisibilityMutation", FALSE, k)
                                    EXCEPT !.mutations = s.vm.buffer],
                             "undef", d)
       IN IF s2.thrown THEN s2 ELSE [s2 EXCEPT !.vm.buffer = << >>]

\* visibility-manager.ts:141-154  (a timer of delay 0 is due from the start:
\* its due time is kept as 0)
ScheduleEmit(s, d) ==
  IF opts.vmMode = "debounce"
  THEN [s EXCEPT !.vm.debounceTimer = TRUE,
                 !.vm.debounceDue = IF opts.vmDebounce = 0 THEN 0
                                    ELSE s.now + opts.vmDebounce]
  ELSE IF opts.vmMode = "throttle"
  THEN IF s.now - s.vm.lastThrottleTime >= opts.vmThrottle
       THEN FlushBuffer([s EXCEPT !.vm.lastThrottleTime = s.now], d)
       ELSE s
  ELSE FlushBuffer(s, d)

\* variant of flushPendingVisibilityMutations: the first pass is scheduled for
\* emission like any other
FlushPendingVisibilityMutations_EmitsFirst(s, d) ==
  LET vm == s.vm
  IN IF vm.disabled \/ vm.frozen \/ vm.locked \/ vm.elements = {} THEN s
     ELSE LET state == ComputeVisibility(vm.elements, vm.previousState)
              hit == {el \in vm.elements :
                        EntryChanged(vm, state, el) /\ Mirror_getId(s, el) # -1}
              buf == [el \in DOMAIN vm.buffer \cup hit |->
                        IF el \in hit
                        THEN [id |-> Mirror_getId(s, el),
                              isVisible |-> state[el].isVisible,
                              ratio |-> state[el].intersectionRatio]
                        ELSE vm.buffer[el]]
              s1 == [s EXCEPT !.vm.buffer = buf, !.vm.previousState = state,
                              !.vm.hasInitialized = TRUE]
          IN ScheduleEmit(s1, d)

\* visibility-manager.ts:98-139
FlushPendingVisibilityMutations(s, d) ==
  LET vm == s.vm
  IN IF vm.disabled \/ vm.frozen \/ vm.locked \/ vm.elements = {} THEN s
     ELSE LET state == ComputeVisibility(vm.elements, vm.previousState)
              hit == {el \in vm.elements :
                        EntryChanged(vm, state, el) /\ Mirror_getId(s, el) # -1}
              buf == [el \in DOMAIN vm.buffer \cup hit |->
                        IF el \in hit
                        THEN [id |-> Mirror_getId(s, el),
                              isVisible |-> state[el].isVisible,
                              ratio |-> state[el].intersectionRatio]
                        ELSE vm.buffer[el]]
              s1 == [s EXCEPT !.vm.buffer = buf, !.vm.previousState = state]
          IN IF ~vm.hasInitialized
             THEN [s1 EXCEPT !.vm.hasInitialized = TRUE, !.vm.buffer = << >>]
             ELSE ScheduleEmit(s1, d)

\* visibility-manager.ts:88-94  one call of the rAF loop.  The frame timestamp
\* is the browser's: whether rafThrottle ms have passed since lastFlushTime
\* ("due") is the environment's choice, and a frame that is not due only asks
\* for the next frame.  An exception leaves the callback before it does so.
Loop(s, due, d) ==
  IF due
  THEN LET s1 == FlushPendingVisibilityMutations(s, d)
       IN IF s1.thrown THEN [s1 EXCEPT !.vm.rafId = FALSE] ELSE s1
  ELSE s

\* visibility-manager.ts:163-166
VisibilityManager_observe(vm, el) ==
  IF vm.disabled THEN vm ELSE [vm EXCEPT !.elements = @ \cup {el}]

\* visibility-manager.ts:168-173
VisibilityManager_unobserve(vm, el) ==
  IF vm.disabled THEN vm
  ELSE [vm EXCEPT !.elements = @ \ {el},
                  !.previousState = [e \in DOMAIN @ \ {el} |-> @[e]]]

\* forEach((el) => this.observe(el))
RECURSIVE ObserveEach(_, _)
ObserveEach(vm, els) ==
  IF els = {} THEN vm
  ELSE LET el == CHOOSE e \in els : TRUE
       IN ObserveEach(VisibilityManager_observe(vm, el), els \ {el})

\* visibility-manager.ts:66-80  the MutationObserver callback, for one record
\* with one added or one removed element
MutationObserverCallback(vm, added, removed) ==
  LET vm1 == IF added = {} THEN vm
             ELSE LET n == CHOOSE e \in added : TRUE
                  IN ObserveEach(VisibilityManager_observe(vm, n), Subtree(n) \ {n})
  IN IF removed = {} THEN vm1
     ELSE VisibilityManager_unobserve(vm1, CHOOSE e \in removed : TRUE)

\* visibility-manager.ts:191-196
VisibilityManager_reset(vm) ==
  [vm EXCEPT !.elements = {}, !.previousState = << >>, !.rafId = FALSE]

\* -------------------------------------------------------- maskInputValue
\* A string is the sequence of its characters; null is a value of its own.
Null == <<"null">>

UpperCase == <<"A", "C", "E", "I", "L", "N", "O", "P", "R", "S", "T", "U", "W", "X">>
LowerCase == <<"a", "c", "e", "i", "l", "n", "o", "p", "r", "s", "t", "u", "w", "x">>

\* String.prototype.toLowerCase, one character
LowerCaseChar(c) ==
  IF \E i \in 1..Len(UpperCase) : UpperCase[i] = c
  THEN LowerCase[CHOOSE i \in 1..Len(UpperCase) : UpperCase[i] = c]
  ELSE c

\* rrweb-snapshot utils.ts:281-283  toLowerCase
ToLowerCase(str) == [i \in 1..Len(str) |-> LowerCaseChar(str[i])]

\* '*'.repeat(n)
Repeat(c, n) == [i \in 1..n |-> c]

\* a maskInputFn: it masks all but the last character
MaskInputFn(text) ==
  IF text = << >> THEN << >>
  ELSE Repeat("#", Len(text) - 1) \o <<text[Len(text)]>>

\* maskInputOptions[key] is truthy: the options are the set of their enabled keys
Enabled(maskInputOptions, key) == key \in maskInputOptions

\* variant of maskInputValue: the tag name is looked up as it is
MaskInputValue_TagAsIs(in) ==
  LET text == IF in.value = Null \/ in.value = << >> THEN << >> ELSE in.value
      actualType == IF in.type = Null \/ in.type = << >> THEN in.type
                    ELSE ToLowerCase(in.type)
  IN IF \/ Enabled(in.maskInputOptions, in.tagName)
        \/ (/\ actualType # Null /\ actualType # << >>
            /\ Enabled(in.maskInputOptions, actualType))
     THEN IF in.maskInputFn THEN MaskInputFn(text) ELSE Repeat("*", Len(text))
     ELSE text

\* rrweb-snapshot utils.ts:250-279  maskInputValue
MaskInputValue(in) ==
  LET \* let text = value || ''
      text == IF in.value = Null \/ in.value = << >> THEN << >> ELSE in.value
      \* const actualType = type && toLowerCase(type)
      actualType == IF in.type = Null \/ in.type = << >> THEN in.type
                    ELSE ToLowerCase(in.type)
  IN IF \/ Enabled(in.maskInputOptions, ToLowerCase(in.tagName))
        \/ (/\ actualType # Null /\ actualType # << >>
            /\ Enabled(in.maskInputOptions, actualType))
     THEN IF in.maskInputFn THEN MaskInputFn(text) ELSE Repeat("*", Len(text))
     ELSE text

\* before the first call
NoMaskCall ==
  [called |-> FALSE,
   in |-> [tagName |-> << >>, type |-> Null, value |-> Null, maskInputOptions |-> {},
           maskInputFn |-> FALSE],
   out |-> << >>]

\* the tag names, input types, values and options the calls are made with
MaskTagNames ==
  {<<"I", "N", "P", "U", "T">>, <<"i", "n", "p", "u", "t">>,
   <<"T", "E", "X", "T", "A", "R", "E", "A">>, <<"S", "E", "L", "E", "C", "T">>}

MaskTypes ==
  {Null, << >>, <<"t", "e", "x", "t">>, <<"T", "e", "x", "t">>,
   <<"p", "a", "s", "s", "w", "o", "r", "d">>,
   <<"P", "A", "S", "S", "W", "O", "R", "D">>}

MaskChars == {"s", "S", "*"}

RECURSIVE Strings(_)
Strings(n) ==
  IF n = 0 THEN {<< >>}
  ELSE Strings(n - 1) \cup
       {Append(str, c) : str \in {x \in Strings(n - 1) : Len(x) = n - 1}, c \in MaskChars}

MaskValues == {Null} \cup Strings(MaxLen)

\* index.ts:153-175  maskAllInputs, the default, and maskInputOptions given
MaskOptions ==
  {{<<"c", "o", "l", "o", "r">>, <<"t", "e", "x", "t">>,
    <<"t", "e", "x", "t", "a", "r", "e", "a">>, <<"s", "e", "l", "e", "c", "t">>,
    <<"p", "a", "s", "s", "w", "o", "r", "d">>},
   {<<"p", "a", "s", "s", "w", "o", "r", "d">>},
   {},
   {<<"t", "e", "x", "t">>},
   {<<"t", "e", "x", "t", "a", "r", "e", "a">>}}

\* ------------------------------------------------------------- record()
\* index.ts:646-659  init of the record() call g
RecordInit(s, g, d) ==
  LET s1 == IF opts.flushCustomEvent = "before" THEN FlushCustomEventQueue(s, d) ELSE s
      s2 == TakeFullSnapshot(s1, "false", InitTrig, d)
      s3 == IF s2.thrown THEN s2
            ELSE [s2 EXCEPT !.attached = @ \cup {g}, !.observed = @ \cup {g},
                            !.bufExists = TRUE, !.recording = TRUE]
  IN IF opts.flushCustomEvent = "after" THEN FlushCustomEventQueue(s3, d) ELSE s3

\* index.ts:73-700  record(options).  A call that gets as far as assigning
\* wrappedEmit hands a new emit to the recorder: the stream followed is that of
\* this call.
RecordCall(s, d) ==
  LET g == s.gen + 1
      \* index.ts:114  registerErrorHandler(errorHandler)
      r == [s EXCEPT !.errorHandler = TRUE]
      s0 == [Mirror_reset(r) EXCEPT
               !.gen = g, !.sink = << >>, !.posted = << >>,
               !.last = NoEvent, !.cnt = 0, !.vis = 0,
               !.vm = NewVisibilityManager(g)]
      s1 == IF s.readyState \in {"interactive", "complete"}
            THEN RecordInit(s0, g, d)
            ELSE [s0 EXCEPT !.listening = @ \cup {g}]
  IN \* index.ts:133-135  throw new Error('emit function is required')
     IF InEmittingFrame /\ ~opts.emit THEN [r EXCEPT !.thrown = TRUE]
     \* index.ts:136-140  the handle returned is a no-op
     ELSE IF ~InEmittingFrame /\ ~PassEmitsToParent THEN r
     \* try/catch of index.ts:696: the exception is logged (console.warn) and
     \* no stop handle is returned
     ELSE IF s1.thrown THEN [s1 EXCEPT !.thrown = FALSE, !.outcome = "swallowed"]
     ELSE [s1 EXCEPT !.handles = @ \cup {g}]

\* the handlers of the record() call g, each called once: the DOMContentLoaded
\* and load listeners are removed, the observers are detached and the
\* visibility manager they were given is reset
DetachObservers(s, g) ==
  [s EXCEPT !.listening = @ \ {g},
            !.attached = @ \ {g},
            !.vm = IF g \in s.observed /\ s.vm.owner = g
                   THEN VisibilityManager_reset(@) ELSE @]

\* index.ts:689-695  the stop handle of the record() call g
StopHandle(s, g, d) ==
  LET s1 == FlushCustomEventQueue(s, d)
  IN IF s1.thrown THEN s1
     ELSE [DetachObservers(s1, g) EXCEPT !.recording = FALSE, !.errorHandler = FALSE]

\* index.ts:667-673 / 678-684  one listener; an exception ends this listener only
RECURSIVE RunListeners(_, _, _, _)
RunListeners(s, gs, name, d) ==
  IF gs = {} THEN s
  ELSE LET g == CHOOSE x \in gs : \A y \in gs : x <= y
           s1 == WrappedEmit(s, IF name = "load" THEN LoadEvent ELSE DomContentLoadedEvent,
                             "undef", d)
           s2 == IF opts.recordAfter = name THEN RecordInit(s1, g, d) ELSE s1
       IN RunListeners([s2 EXCEPT !.thrown = FALSE,
                                  !.outcome = IF s2.thrown THEN "escaped" ELSE @],
                       gs \ {g}, name, d)

\* variant of record.addCustomEvent: the event is queued as well as delivered
\* while the recorder records
AddCustomEvent_QueuesToo(s, tag, d) ==
  IF ~s.recording THEN [s EXCEPT !.queue = Append(@, tag)]
  ELSE WrappedEmit([s EXCEPT !.queue = Append(@, tag)], CustomEvent(tag), "undef", d)

\* index.ts:707-723  record.addCustomEvent
AddCustomEvent(s, tag, d) ==
  IF ~s.recording THEN [s EXCEPT !.queue = Append(@, tag)]
  ELSE WrappedEmit(s, CustomEvent(tag), "undef", d)

\* index.ts:725-727  record.freezePage
FreezePage(s) == [s EXCEPT !.bufFrozen = s.bufExists]

\* index.ts:729-734  record.takeFullSnapshot; isCheckout = false when not given
RecordTakeFullSnapshot(s, isCheckout, d) ==
  IF ~s.recording THEN [s EXCEPT !.thrown = TRUE]
  ELSE TakeFullSnapshot(s, IF isCheckout = "undef" THEN "false" ELSE isCheckout,
                        ManualTrig(s.cnt, s.now - s.last.ts, s.vis), d)

\* callbackWrapper(cb): an exception of an observer callback goes to the
\* errorHandler if one is registered, and is logged and dropped otherwise
CallbackWrapper(s) ==
  IF ~s.thrown THEN s
  ELSE [s EXCEPT !.thrown = FALSE,
                 !.outcome = IF s.errorHandler /\ opts.errorHandler
                             THEN "handled" ELSE "swallowed"]

\* ---------------------------------------- the web extension's API client
\* web-extension/src/utils/apiClient.ts.  A request is its config (_retry, the
\* Authorization header) together with where its promise stands ("phase") and
\* what its caller has been given ("result"); "answered401" and "reissued"
\* are history.  A token is the number of the login or refresh that issued it,
\* 0 is no token, -1 the personal token (Api-Key).  Request 0 is the POST to
\* /api/auth/token/refresh that refreshJwtToken makes.
Refresh == 0

NewRequest ==
  [phase |-> "idle", retry |-> FALSE, authorization |-> 0, token |-> 0,
   answered401 |-> FALSE, reissued |-> 0, result |-> "none"]

ApiCur ==
  [settings |-> apiSettings, isRefreshing |-> isRefreshing,
   refreshSubscribers |-> refreshSubscribers, requests |-> requests,
   server |-> server]

\* apiClient.ts:39-57  request interceptor
RequestInterceptor(c, config) ==
  IF c.settings.type = "jwt" /\ c.settings.jwtAccessToken # 0
  THEN [config EXCEPT !.authorization = c.settings.jwtAccessToken]
  ELSE IF c.settings.type = "personalToken"
  THEN [config EXCEPT !.authorization = -1]
  ELSE config

\* this.axiosInstance(config): through the request interceptor and onto the wire
Send(c, r) ==
  [c EXCEPT !.requests[r] = [RequestInterceptor(c, @) EXCEPT !.phase = "inflight"]]

\* apiClient.ts:122-125
SetAuthHeader(config, token) == [config EXCEPT !.authorization = token]

\* setAuthHeader(originalRequest, newToken); return this.axiosInstance(originalRequest);
\* and the finally of line 106-108
Reissue(c, r, token) ==
  [Send([c EXCEPT !.requests[r] = [SetAuthHeader(@, token) EXCEPT !.reissued = @ + 1]], r)
     EXCEPT !.isRefreshing = FALSE]

\* the request whose handler awaits refreshJwtToken()
Refresher(c) == CHOOSE r \in DOMAIN c.requests : c.requests[r].phase = "refreshing"

\* the promise of request r is settled.  That of the refresh request is awaited
\* by refreshJwtToken (apiClient.ts:143): fulfilled, the handler that called
\* it goes on to settingsManager.updateApiSettings, which assigns the settings
\* and awaits the storage (lines 83-95; settingsManager.ts:65-77); rejected,
\* the handler rejects with the same error and clears isRefreshing (104-108).
Settle(c, r, result) ==
  LET c1 == [c EXCEPT !.requests[r].phase = "done", !.requests[r].result = result]
      h == Refresher(c)
  IN IF r # Refresh THEN c1
     ELSE IF result = "ok"
     THEN [c1 EXCEPT !.settings.type = "jwt",
                     !.settings.jwtAccessToken = c.server.access,
                     !.requests[h].token = c.server.access,
                     !.requests[h].phase = "storing"]
     ELSE [c1 EXCEPT !.requests[h].phase = "done", !.requests[h].result = "refreshError",
                     !.isRefreshing = FALSE]

\* apiClient.ts:127-155  refreshJwtToken, called by the handler of request r,
\* up to its await
RefreshJwtToken(c, r) ==
  IF c.settings.type # "jwt" \/ ~c.settings.jwtRefreshToken
  THEN [c EXCEPT !.requests[r].phase = "done", !.requests[r].result = "refreshError",
                 !.isRefreshing = FALSE]
  ELSE Send([c EXCEPT !.requests[Refresh] = NewRequest], Refresh)

\* apiClient.ts:62-111  the response interceptor's handler of a failed request,
\* up to its first await
OnRejected(c, r, status) ==
  IF status = 401 /\ c.settings.type = "jwt" /\ ~c.requests[r].retry
  THEN IF c.isRefreshing
       THEN [c EXCEPT !.requests[r].retry = TRUE,
                      !.requests[r].answered401 = TRUE,
                      !.requests[r].phase = "subscribed",
                      !.refreshSubscribers = Append(@, r)]
       ELSE RefreshJwtToken([c EXCEPT !.requests[r].retry = TRUE,
                                      !.requests[r].answered401 = TRUE,
                                      !.requests[r].phase = "refreshing",
                                      !.isRefreshing = TRUE], r)
  ELSE Settle(c, r, IF status = 401 THEN "401" ELSE "error")

\* the continuations of the handlers that wait in refreshSubscribers, run in
\* the order of their callbacks (apiClient.ts:76-80)
RECURSIVE Resume(_, _, _, _)
Resume(c, subscribers, i, token) ==
  IF i > Len(subscribers) THEN c
  ELSE Resume(Reissue(c, subscribers[i], token), subscribers, i + 1, token)

\* apiClient.ts:97-108  after updateApiSettings: the subscribers are called and
\* forgotten, the request is sent again; then the subscribers' handlers go on
AfterUpdate(c, r) ==
  Resume(Reissue([c EXCEPT !.refreshSubscribers = << >>], r, c.requests[r].token),
         c.refreshSubscribers, 1, c.requests[r].token)

\* the server accepts the Authorization header
Accepts(srv, authorization) ==
  \/ authorization > 0 /\ authorization = srv.access
  \/ authorization = -1 /\ srv.apiKey

\* the server answers the POST to /api/auth/token/refresh: a new access token
\* for a good refresh token
IssueToken(c) ==
  [c EXCEPT !.server.issued = @ + 1, !.server.access = c.server.issued + 1]

ApiCommit(c) ==
  /\ apiSettings' = c.settings
  /\ isRefreshing' = c.isRefreshing
  /\ refreshSubscribers' = c.refreshSubscribers
  /\ requests' = c.requests
  /\ server' = c.server
  /\ UNCHANGED << recorderVars, documentAccessible, backgroundVars >>

\* a caller makes a request (fetchProjects, fetchTeams, sendSession, ...)
Call ==
  \E r \in DOMAIN requests \ {Refresh} :
    /\ requests[r].phase = "idle"
    /\ ApiCommit(Send(ApiCur, r))

\* the server answers a request other than the refresh
Respond ==
  \E r \in DOMAIN requests \ {Refresh} :
    /\ requests[r].phase = "inflight"
    /\ ApiCommit(IF Accepts(server, requests[r].authorization)
                 THEN Settle(ApiCur, r, "ok")
                 ELSE OnRejected(ApiCur, r, 401))

\* the server answers the refresh: 200 with a new access token, 401 for a
\* refresh token it does not accept, or it fails (5xx, network)
RespondRefresh ==
  /\ requests[Refresh].phase = "inflight"
  /\ \/ /\ server.refresh
        /\ ApiCommit(Settle(IssueToken(ApiCur), Refresh, "ok"))
     \/ /\ ~server.refresh
        /\ ApiCommit(OnRejected(ApiCur, Refresh, 401))
     \/ ApiCommit(OnRejected(ApiCur, Refresh, 500))

\* Browser.storage.sync.set has stored the settings: updateApiSettings returns
Stored ==
  \E r \in DOMAIN requests :
    /\ requests[r].phase = "storing"
    /\ ApiCommit(AfterUpdate(ApiCur, r))

\* the access token, the refresh token or the personal token expires or is revoked
TokenExpires ==
  \/ server.access # 0 /\ ApiCommit([ApiCur EXCEPT !.server.access = 0])
  \/ server.refresh /\ ApiCommit([ApiCur EXCEPT !.server.refresh = FALSE])
  \/ server.apiKey /\ ApiCommit([ApiCur EXCEPT !.server.apiKey = FALSE])

\* ------------------------------------------------------------ the machine
Cur ==
  [readyState |-> readyState, now |-> now, sink |-> sink, posted |-> posted,
   fuse |-> emitFuse, outcome |-> "ok", gen |-> wrappedEmitGen,
   last |-> lastFullSnapshotEvent, cnt |-> incrementalSnapshotCount,
   vis |-> recentVisibilityChanges, recording |-> recording,
   queue |-> customEventQueue, errorHandler |-> errorHandlerRegistered,
   idNodeMap |-> idNodeMap, nodeMetaMap |-> nodeMetaMap, nextId |-> nextId,
   attached |-> attached.live, observed |-> attached.ever, listening |-> listening,
   handles |-> handles, bufExists |-> bufExists, bufFrozen |-> bufFrozen,
   bufLocked |-> bufLocked, bufPending |-> bufPending, vm |-> visibilityManager,
   call |-> lastCall, localId |-> localId, callbackId |-> callbackId,
   node |-> TRUE, thrown |-> FALSE]

\* the events of a stream that are incremental and not a plain mutation
Extras(q) ==
  {i \in 1..Len(q) : /\ q[i].type = "IncrementalSnapshot"
                      /\ (q[i].src # "Mutation" \/ q[i].attach)}

Commit(s) ==
  /\ Len(s.sink) <= bound.sink
  /\ Len(s.posted) <= bound.sink
  /\ Cardinality(Extras(s.sink)) <= bound.extras
  /\ Len(s.queue) <= bound.queue
  /\ s.now <= bound.time
  /\ readyState' = s.readyState
  /\ now' = s.now
  /\ sink' = s.sink
  /\ posted' = s.posted
  /\ emitFuse' = s.fuse
  /\ outcome' = IF s.thrown THEN "escaped" ELSE s.outcome
  /\ wrappedEmitGen' = s.gen
  /\ lastFullSnapshotEvent' = s.last
  /\ incrementalSnapshotCount' = s.cnt
  /\ recentVisibilityChanges' = s.vis
  /\ recording' = s.recording
  /\ customEventQueue' = s.queue
  /\ errorHandlerRegistered' = s.errorHandler
  /\ idNodeMap' = s.idNodeMap
  /\ nodeMetaMap' = s.nodeMetaMap
  /\ nextId' = s.nextId
  /\ attached' = [live |-> s.attached, ever |-> s.observed]
  /\ listening' = s.listening
  /\ handles' = s.handles
  /\ bufExists' = s.bufExists
  /\ bufFrozen' = s.bufFrozen
  /\ bufLocked' = s.bufLocked
  /\ bufPending' = s.bufPending
  /\ visibilityManager' = s.vm
  /\ lastCall' = s.call
  /\ localId' = s.localId
  /\ callbackId' = s.callbackId
  /\ UNCHANGED << opts, bound, page, maskCall, apiVars, documentAccessible,
                  backgroundVars >>

\* how long a serialization may take
Delays == bound.delays

Record ==
  /\ wrappedEmitGen < bound.records
  /\ \E d \in Delays : Commit(RecordCall(Cur, d))

DomContentLoaded ==
  /\ readyState = "loading"
  /\ \E d \in Delays :
       Commit(RunListeners([Cur EXCEPT !.readyState = "interactive"], listening,
                           "DOMContentLoaded", d))

Load ==
  /\ readyState = "interactive"
  /\ \E d \in Delays :
       Commit([RunListeners([Cur EXCEPT !.readyState = "complete"], listening,
                            "load", d) EXCEPT !.listening = {}])

Stop ==
  \E g \in handles, d \in Delays : Commit(StopHandle(Cur, g, d))

AddCustom ==
  \E tag \in bound.tags, d \in Delays : Commit(AddCustomEvent(Cur, tag, d))

FlushQueue ==
  /\ wrappedEmitGen > 0
  /\ \E d \in Delays : Commit(FlushCustomEventQueue(Cur, d))

Freeze ==
  /\ bufExists /\ ~bufFrozen
  /\ Commit(FreezePage(Cur))

ManualSnapshot ==
  /\ recording
  /\ \E c \in {"undef", "false", "true"}, d \in Delays :
       Commit(RecordTakeFullSnapshot(Cur, c, d))

DomMutation ==
  /\ attached.live # {}
  /\ \E d \in Delays : Commit(CallbackWrapper(ProcessMutations(Cur, d)))

UserInput ==
  /\ attached.live # {}
  /\ \E d \in Delays :
       Commit(CallbackWrapper(WrappedEmit(Cur, Incremental("Input", FALSE, 0), "undef", d)))

IframeAttach ==
  /\ attached.live # {}
  /\ \E d \in Delays : Commit(WrappedMutationEmit(Cur, TRUE, d))

Frame ==
  /\ visibilityManager.rafId
  /\ \E d \in Delays : Commit(Loop(Cur, TRUE, d))

\* the timer of setTimeout(..., this.debounce) fires, at its due time or later
DebounceTimer ==
  /\ visibilityManager.debounceTimer
  /\ now >= visibilityManager.debounceDue
  /\ \E d \in Delays :
       Commit(FlushBuffer([Cur EXCEPT !.vm.debounceTimer = FALSE,
                                      !.vm.debounceDue = 0], d))

PageChange ==
  /\ \E el \in Nodes, r \in opts.ratios, st \in opts.styles :
       /\ page' = [page EXCEPT ![el] = [@ EXCEPT !.ratio = r, !.style = st]]
       /\ page' # page
  /\ UNCHANGED << documentAccessible, backgroundVars,
                  opts, bound, readyState, now, sink, posted, emitFuse, outcome,
                  wrappedEmitGen,
                  lastFullSnapshotEvent, incrementalSnapshotCount,
                  recentVisibilityChanges, recording, customEventQueue,
                  errorHandlerRegistered, idNodeMap, nodeMetaMap, nextId,
                  attached, listening, handles, bufExists, bufFrozen, bufLocked,
                  bufPending, visibilityManager, maskCall, lastCall, localId,
                  callbackId, apiVars >>

\* a detached subtree is inserted under document.body, or one is removed from
\* it; the MutationObserver of the manager, if one was constructed, is told
DomChange(n, connect, added, removed) ==
  /\ page' = [page EXCEPT ![n].connected = connect]
  /\ visibilityManager' =
       IF visibilityManager.owner # 0 /\ ~visibilityManager.disabled
       THEN MutationObserverCallback(visibilityManager, added, removed)
       ELSE visibilityManager
  /\ UNCHANGED << documentAccessible, backgroundVars,
                  opts, bound, readyState, now, sink, posted, emitFuse, outcome,
                  wrappedEmitGen,
                  lastFullSnapshotEvent, incrementalSnapshotCount,
                  recentVisibilityChanges, recording, customEventQueue,
                  errorHandlerRegistered, idNodeMap, nodeMetaMap, nextId,
                  attached, listening, handles, bufExists, bufFrozen, bufLocked,
                  bufPending, maskCall, lastCall, localId, callbackId, apiVars >>

DomInsert ==
  \E n \in Roots : ~page[n].connected /\ DomChange(n, TRUE, {n}, {})

DomRemove ==
  \E n \in Roots : page[n].connected /\ DomChange(n, FALSE, {}, {n})

\* the serializer or the input observer masks the value of an input element;
\* one call is followed
MaskInput ==
  /\ ~maskCall.called
  /\ \E tagName \in MaskTagNames, type \in MaskTypes, value \in MaskValues,
        options \in MaskOptions, fn \in BOOLEAN :
       LET in == [tagName |-> tagName, type |-> type, value |-> value,
                  maskInputOptions |-> options, maskInputFn |-> fn]
       IN maskCall' = [called |-> TRUE, in |-> in, out |-> MaskInputValue(in)]
  /\ UNCHANGED << documentAccessible, backgroundVars,
                  opts, bound, readyState, page, now, sink, posted, emitFuse, outcome,
                  wrappedEmitGen, lastFullSnapshotEvent, incrementalSnapshotCount,
                  recentVisibilityChanges, recording, customEventQueue,
                  errorHandlerRegistered, idNodeMap, nodeMetaMap, nextId,
                  attached, listening, handles, bufExists, bufFrozen, bufLocked,
                  bufPending, visibilityManager, lastCall, localId, callbackId,
                  apiVars >>

\* calls made on record.mirror (index.ts:72, 736) by the code that holds it
MirrorAdd ==
  \E n \in Nodes, id \in 1..bound.ids :
    Commit([Mirror_add(Cur, n, id) EXCEPT !.call = [op |-> "add", node |-> n, id |-> id]])

MirrorReplace ==
  \E n \in Nodes, id \in 1..bound.ids :
    Commit([Mirror_replace(Cur, id, n) EXCEPT
              !.call = [op |-> "replace", node |-> n, id |-> id]])

MirrorRemoveNodeFromMap ==
  \E n \in Nodes :
    Commit([Mirror_removeNodeFromMap(Cur, n) EXCEPT
              !.call = [op |-> "removeNodeFromMap", node |-> n, id |-> 0]])

MirrorReset ==
  Commit([Mirror_reset(Cur) EXCEPT !.call = [op |-> "reset", node |-> 0, id |-> 0]])

\* another user of the getId callback (the recorder of another frame) draws
\* an id from it
OtherFrameDrawsId ==
  /\ \E i \in DOMAIN opts.plugins :
       opts.plugins[i].name = PLUGIN_NAME /\ opts.plugins[i].getId
  /\ callbackId < Len(sink) + bound.ids
  /\ Commit([Cur EXCEPT !.callbackId = @ + 1])

\* visibility-manager.ts:175-196  the public methods of the manager, called by
\* the code that was handed the instance
VisibilityFreeze ==
  /\ visibilityManager.owner # 0 /\ ~visibilityManager.frozen
  /\ Commit([Cur EXCEPT !.vm.frozen = TRUE])

VisibilityUnfreeze ==
  /\ visibilityManager.owner # 0 /\ visibilityManager.frozen
  /\ Commit([Cur EXCEPT !.vm.frozen = FALSE])

VisibilityLock ==
  /\ visibilityManager.owner # 0 /\ ~visibilityManager.locked
  /\ Commit([Cur EXCEPT !.vm.locked = TRUE])

VisibilityUnlock ==
  /\ visibilityManager.owner # 0 /\ visibilityManager.locked
  /\ Commit([Cur EXCEPT !.vm.locked = FALSE])

VisibilityReset ==
  /\ visibilityManager.owner # 0
  /\ lastCall.op # "VisibilityManager.reset"
  /\ Commit([Cur EXCEPT !.vm = VisibilityManager_reset(@),
                        !.call = [op |-> "VisibilityManager.reset",
                                  node |-> 0, id |-> 0]])

\* the sink is about to fail: its n-th next call throws
SinkBreaks ==
  /\ emitFuse = 0
  /\ \E n \in 1..MaxFuse : Commit([Cur EXCEPT !.fuse = n])

Tick ==
  /\ now < bound.time
  /\ Commit([Cur EXCEPT !.now = @ + 1])

\* an element out of view, with the given child elements; it is in the
\* document, or its topmost ancestor is
Element(children) ==
  [ratio |-> 0, style |-> TRUE, childNodes |-> children, connected |-> TRUE]

\* no call made yet
NoCall == [op |-> "-", node |-> 0, id |-> 0]

RecorderAtLoad(o, b, rs, pg) ==
  /\ opts = o
  /\ bound = b
  /\ readyState = rs
  /\ page = pg
  /\ now = 0
  /\ sink = << >>
  /\ posted = << >>
  /\ emitFuse = 0
  /\ outcome = "ok"
  /\ wrappedEmitGen = 0
  /\ lastFullSnapshotEvent = NoEvent
  /\ incrementalSnapshotCount = 0
  /\ recentVisibilityChanges = 0
  /\ recording = FALSE
  /\ customEventQueue = << >>
  /\ errorHandlerRegistered = FALSE
  /\ idNodeMap = << >>
  /\ nodeMetaMap = << >>
  /\ nextId = 1
  /\ attached = [live |-> {}, ever |-> {}]
  /\ listening = {}
  /\ handles = {}
  /\ bufExists = FALSE
  /\ bufFrozen = FALSE
  /\ bufLocked = FALSE
  /\ bufPending = FALSE
  /\ visibilityManager = NoVisibilityManager
  /\ maskCall = NoMaskCall
  /\ lastCall = NoCall
  /\ localId = 0
  /\ callbackId = 0
  /\ documentAccessible = TRUE

\* the API client before its first request: the settings hold the tokens the
\* server has handed out at login
ApiAtLoad(type, hasRefresh, n) ==
  /\ apiSettings = [type |-> type, jwtAccessToken |-> 1, jwtRefreshToken |-> hasRefresh]
  /\ isRefreshing = FALSE
  /\ refreshSubscribers = << >>
  /\ requests = [r \in 0..n |-> NewRequest]
  /\ server = [access |-> 1, refresh |-> TRUE, apiKey |-> TRUE, issued |-> 1]

\* background/index.ts:26-41  the background script once it has loaded, in a
\* browser with the tabs open and the first of them active
BackgroundAtLoad(isFirefox) ==
  /\ recorderStatus = [status |-> "IDLE", activeTabId |-> -1, pausedTimestamp |-> 0]
  /\ events = << >>
  /\ handlers = << >>
  /\ invoked = 0
  /\ sessions = << >>
  /\ browser = [isFirefox |-> isFirefox, open |-> Tabs, current |-> 1,
                recording |-> {}, emitted |-> 0]
  /\ dateNow = 1

StartWith(o, b, rs, pg) ==
  /\ RecorderAtLoad(o, b, rs, pg)
  /\ ApiAtLoad("jwt", TRUE, 0)
  /\ BackgroundAtLoad(FALSE)

\* a document whose elements have no child elements
Start(o, b, rs, els) == StartWith(o, b, rs, [el \in els |-> Element({})])


\* the options of one record() call and the frame it is made in: the top
\* window, or an iframe whose parent is same-origin or cross-origin.  Unless a
\* scenario says otherwise emit is given, there is no errorHandler, no plugin
\* and no packFn, and the call is made in the top window.
Opt(nth, nms, nvm, dom, flush, after, vm) ==
  [checkoutEveryNth |-> nth, checkoutEveryNms |-> nms, checkoutEveryNvm |-> nvm,
   recordDOM |-> dom, flushCustomEvent |-> flush, recordAfter |-> after,
   vmMode |-> vm, vmThrottle |-> 1, vmDebounce |-> 0,
   mutatesWhileSerializing |-> FALSE, ratios |-> {0, 100}, styles |-> {TRUE},
   emit |-> TRUE, errorHandler |-> FALSE, plugins |-> << >>, packFn |-> FALSE,
   recordCrossOriginIframes |-> FALSE, frame |-> "top"]

\* ------------------------------------------------------ the recorder's life
\* record() called while the document loads or after, with or without DOM
\* recording, with either flushCustomEvent and recordAfter (read only while the
\* document loads); stop handles, the facade, a second record() call.
\* sampling.visibility is false and the clock stands still.
Options ==
  {Opt(0, 0, 0, dom, flush, after, "disabled") :
     dom \in BOOLEAN, flush \in {"before", "after"},
     after \in {"DOMContentLoaded", "load"}}

Pages ==
  {<<o, rs>> \in Options \X {"loading", "complete"} :
     rs = "complete" => o.recordAfter = "load"}

Bound ==
  [sink |-> MaxSink, queue |-> MaxQueue, records |-> MaxRecords, time |-> 0,
   delays |-> {0}, tags |-> {"a"}, extras |-> MaxSink]

Init == \E p \in Pages : Start(p[1], Bound, p[2], {1})

Next ==
  \/ Record
  \/ DomContentLoaded
  \/ Load
  \/ Stop
  \/ AddCustom
  \/ FlushQueue
  \/ ManualSnapshot
  \/ DomMutation
  \/ UserInput

Spec == Init /\ [][Next]_vars

\* ------------------------------------------------------ the checkout policy
\* One recording of a loaded document under a checkout policy
\* <<checkoutEveryNth, checkoutEveryNms, checkoutEveryNvm>>, with the clock
\* running and the visibility manager emitting at once (mode "none").
CheckoutPolicies ==
  {<<1, 0, 0>>, <<0, 1, 0>>, <<0, 0, 1>>, <<1, 1, 0>>, <<1, 0, 2>>, <<0, 1, 1>>}

BoundCheckout ==
  [sink |-> MaxSinkCheckout, queue |-> 0, records |-> 1, time |-> MaxTime,
   delays |-> {0}, tags |-> {"a"}, extras |-> MaxSinkCheckout]

InitCheckout ==
  \E p \in CheckoutPolicies :
    Start(Opt(p[1], p[2], p[3], TRUE, "after", "load", "none"),
          BoundCheckout, "complete", {1})

NextCheckout ==
  \/ Record
  \/ Freeze
  \/ ManualSnapshot
  \/ DomMutation
  \/ IframeAttach
  \/ Frame
  \/ PageChange
  \/ Tick

SpecCheckout == InitCheckout /\ [][NextCheckout]_vars

\* ------------------------------------------------ one session, start to end
\* One recording of a loaded document from record() until after its stop
\* handle, with a debouncing visibility manager; a serialization may take time.
BoundSession ==
  [sink |-> MaxSinkCheckout, queue |-> MaxQueue, records |-> 1, time |-> MaxTime,
   delays |-> {0, 1}, tags |-> {"a"}, extras |-> MaxSinkCheckout]

InitSession ==
  \E nth \in {0, 1} :
    Start(Opt(nth, 0, 0, TRUE, "after", "load", "debounce"),
          BoundSession, "complete", {1})

NextSession ==
  \/ Record
  \/ Stop
  \/ AddCustom
  \/ FlushQueue
  \/ Freeze
  \/ DomMutation
  \/ UserInput
  \/ Frame
  \/ DebounceTimer
  \/ PageChange
  \/ Tick

SpecSession == InitSession /\ [][NextSession]_vars

\* ------------------------------------------- the checkoutEveryNth scenario
\* checkoutEveryNth = N is the only checkout option; the page produces
\* attribute mutations and a few other incremental events, and may be frozen.
BoundNth ==
  [sink |-> MaxSinkNth, queue |-> 0, records |-> 1, time |-> 0,
   delays |-> {0}, tags |-> {"a"}, extras |-> MaxExtras]

InitNth ==
  \E n \in 1..MaxNth :
    Start(Opt(n, 0, 0, TRUE, "after", "load", "disabled"), BoundNth, "complete", {1})

NextNth ==
  \/ Record
  \/ Freeze
  \/ DomMutation
  \/ UserInput
  \/ IframeAttach

SpecNth == InitNth /\ [][NextNth]_vars

\* ------------------------------------------------------ the custom-event queue
\* One recording, started while the document loads or after, with either
\* flushCustomEvent; the page adds custom events of two kinds before, during
\* and after the recording.
BoundQueue ==
  [sink |-> MaxSinkQueue, queue |-> MaxQueueFifo, records |-> 1, time |-> 0,
   delays |-> {0}, tags |-> {"a", "b"}, extras |-> MaxSinkQueue]

InitQueue == \E p \in Pages : Start(p[1], BoundQueue, p[2], {1})

NextQueue ==
  \/ Record
  \/ DomContentLoaded
  \/ Load
  \/ Stop
  \/ AddCustom
  \/ FlushQueue

SpecQueue == InitQueue /\ [][NextQueue]_vars

\* ---------------------------------------------- custom events of a session
\* One recording of a loaded document from record() until after its stop
\* handle; the page adds custom events at any time, changes the document and
\* may be frozen; checkoutEveryNth is 1 or not set.
BoundCustom ==
  [sink |-> MaxSinkQueue, queue |-> MaxQueueFifo, records |-> 1, time |-> 0,
   delays |-> {0}, tags |-> {"a", "b"}, extras |-> MaxSinkQueue]

InitCustom ==
  \E nth \in {0, 1} :
    Start(Opt(nth, 0, 0, TRUE, "after", "load", "disabled"),
          BoundCustom, "complete", {1})

NextCustom ==
  \/ Record
  \/ Stop
  \/ AddCustom
  \/ FlushQueue
  \/ Freeze
  \/ DomMutation

SpecCustom == InitCustom /\ [][NextCustom]_vars

\* ------------------------------------------------------ frames and pipeline
\* record() called in the top window or in an iframe, with or without
\* recordCrossOriginIframes, emit, errorHandler and packFn, and with plugins
\* some of which have an eventProcessor; one recording of a loaded document.
Plugin(name, has) == [name |-> name, eventProcessor |-> has]

PluginLists ==
  {<< >>,
   <<Plugin("p", TRUE), Plugin("q", TRUE)>>,
   <<Plugin("q", TRUE), Plugin("p", TRUE)>>,
   <<Plugin("p", TRUE), Plugin("n", FALSE), Plugin("q", TRUE)>>}

Frames == {"top", "sameOriginChild", "crossOriginChild"}

OptionsFrames ==
  {[Opt(nth, 0, 0, TRUE, "after", "load", "disabled") EXCEPT
      !.emit = em, !.errorHandler = eh, !.plugins = ps, !.packFn = pk,
      !.recordCrossOriginIframes = x, !.frame = f] :
     nth \in {0, 1}, em \in BOOLEAN, eh \in BOOLEAN, ps \in PluginLists,
     pk \in BOOLEAN, x \in BOOLEAN, f \in Frames}

BoundFrames ==
  [sink |-> MaxSinkCheckout, queue |-> MaxQueue, records |-> 1, time |-> 0,
   delays |-> {0}, tags |-> {"a"}, extras |-> MaxSinkCheckout]

InitFrames == \E o \in OptionsFrames : Start(o, BoundFrames, "complete", {1})

NextFrames ==
  \/ Record
  \/ Stop
  \/ AddCustom
  \/ DomMutation
  \/ UserInput

SpecFrames == InitFrames /\ [][NextFrames]_vars

\* ------------------------------------------------------------ a failing sink
\* One recording of a loaded document, with or without errorHandler, whose
\* emit throws now and then; custom events, DOM mutations and user input.
BoundFailure ==
  [sink |-> MaxSink, queue |-> MaxQueueFifo, records |-> 1, time |-> 0,
   delays |-> {0}, tags |-> {"a", "b"}, extras |-> MaxSink]

InitFailure ==
  \E eh \in BOOLEAN, flush \in {"before", "after"} :
    Start([Opt(0, 0, 0, TRUE, flush, "load", "disabled") EXCEPT !.errorHandler = eh],
          BoundFailure, "complete", {1})

NextFailure ==
  \/ Record
  \/ Stop
  \/ AddCustom
  \/ FlushQueue
  \/ DomMutation
  \/ UserInput
  \/ SinkBreaks

SpecFailure == InitFailure /\ [][NextFailure]_vars

\* ------------------------------------------------------ element visibility
\* One recording of a loaded document with two elements whose intersection
\* ratio goes between 0, 60 and 100 percent (threshold 50, sensitivity 5), the
\* visibility manager emitting at once, debouncing or throttling.
BoundVisibility ==
  [sink |-> MaxSinkVisibility, queue |-> 0, records |-> 1, time |-> MaxTimeVisibility,
   delays |-> {0}, tags |-> {"a"}, extras |-> MaxSinkVisibility]

InitVisibility ==
  \E mode \in {"none", "debounce", "throttle"} :
    Start([Opt(0, 0, 0, TRUE, "after", "load", mode) EXCEPT !.ratios = {0, 60, 100}],
          BoundVisibility, "complete", {1, 2})

NextVisibility ==
  \/ Record
  \/ Frame
  \/ DebounceTimer
  \/ PageChange
  \/ Tick

SpecVisibility == InitVisibility /\ [][NextVisibility]_vars

\* ------------------------------------------------- pacing of visibility events
\* One recording of a loaded document with two elements going in and out of
\* view, the visibility manager debouncing or throttling with a delay of one
\* or two clock ticks, the clock running to MaxTimePacing.
BoundPacing ==
  [sink |-> MaxSinkVisibility, queue |-> 0, records |-> 1, time |-> MaxTimePacing,
   delays |-> {0}, tags |-> {"a"}, extras |-> MaxSinkVisibility]

InitPacing ==
  \E mode \in {"debounce", "throttle"}, t \in {1, 2} :
    Start([Opt(0, 0, 0, TRUE, "after", "load", mode)
             EXCEPT !.vmDebounce = t, !.vmThrottle = t],
          BoundPacing, "complete", {1, 2})

NextPacing ==
  \/ Record
  \/ Frame
  \/ DebounceTimer
  \/ PageChange
  \/ Tick

SpecPacing == InitPacing /\ [][NextPacing]_vars

\* ------------------------------------------- holding the visibility manager
\* One recording of a loaded document with two elements going in and out of
\* view, in each flush mode (delays of 0), the manager being frozen, unfrozen,
\* locked and unlocked at any moment and reset once.
BoundHold ==
  [sink |-> MaxSinkVisibility, queue |-> 0, records |-> 1, time |-> 0,
   delays |-> {0}, tags |-> {"a"}, extras |-> MaxSinkVisibility]

InitHold ==
  \E mode \in {"none", "debounce", "throttle"} :
    Start([Opt(0, 0, 0, TRUE, "after", "load", mode) EXCEPT !.vmThrottle = 0],
          BoundHold, "complete", {1, 2})

NextHold ==
  \/ Record
  \/ Frame
  \/ DebounceTimer
  \/ PageChange
  \/ VisibilityFreeze
  \/ VisibilityUnfreeze
  \/ VisibilityLock
  \/ VisibilityUnlock
  \/ VisibilityReset

SpecHold == InitHold /\ [][NextHold]_vars

\* ------------------------------------------------- snapshots of a busy page
\* One recording of a loaded document that may change while it is serialized:
\* record.takeFullSnapshot calls, DOM mutations, user input, the page frozen
\* and unfrozen by the next event.
BoundLock ==
  [sink |-> MaxSinkQueue, queue |-> 0, records |-> 1, time |-> 0,
   delays |-> {0}, tags |-> {"a"}, extras |-> MaxSinkQueue]

InitLock ==
  \E busy \in BOOLEAN :
    Start([Opt(0, 0, 0, TRUE, "after", "load", "disabled")
             EXCEPT !.mutatesWhileSerializing = busy],
          BoundLock, "complete", {1})

NextLock ==
  \/ Record
  \/ ManualSnapshot
  \/ DomMutation
  \/ UserInput
  \/ Freeze

SpecLock == InitLock /\ [][NextLock]_vars

\* ------------------------------------------------------------ input masking
\* maskInputValue called with tag names and types in either case, values up
\* to MaxLen characters or null, several maskInputOptions, with and without
\* maskInputFn.
InitMask ==
  Start(Opt(0, 0, 0, TRUE, "after", "load", "disabled"), Bound, "complete", {1})

NextMask == MaskInput

SpecMask == InitMask /\ [][NextMask]_vars

\* ------------------------------------------------- the sequential-id plugin
\* One recording of a loaded document with one instance of the
\* sequential-id plugin, counting locally under the default key or another, or
\* through a getId callback that other frames draw from too; alone or behind
\* another plugin, with or without packFn and a checkout at every event;
\* custom events, user input, and DOM mutations on a page that may be frozen.
SequentialIdPlugin(key, getId) ==
  [name |-> PLUGIN_NAME, eventProcessor |-> TRUE, key |-> key, getId |-> getId]

SequencePluginLists ==
  {<<SequentialIdPlugin("id", FALSE)>>,
   <<SequentialIdPlugin("seq", FALSE)>>,
   <<SequentialIdPlugin("id", TRUE)>>,
   <<Plugin("p", TRUE), SequentialIdPlugin("id", FALSE)>>}

OptionsSequence ==
  {[Opt(nth, 0, 0, TRUE, "after", "load", "disabled") EXCEPT
      !.plugins = ps, !.packFn = pk] :
     nth \in {0, 1}, ps \in SequencePluginLists, pk \in BOOLEAN}

BoundSequence ==
  [sink |-> MaxSinkQueue, queue |-> MaxQueue, records |-> 1, time |-> 0,
   delays |-> {0}, tags |-> {"a"}, extras |-> MaxSinkQueue, ids |-> MaxOtherIds]

InitSequence == \E o \in OptionsSequence : Start(o, BoundSequence, "complete", {1})

NextSequence ==
  \/ Record
  \/ AddCustom
  \/ Freeze
  \/ DomMutation
  \/ UserInput
  \/ OtherFrameDrawsId

SpecSequence == InitSequence /\ [][NextSequence]_vars

\* --------------------------------------------------------- the API client
\* Requests made through the API client under JWT authentication, with or
\* without a refresh token in the settings, or with a personal token; the
\* server's tokens expire or are revoked at any moment, and the refresh may
\* fail.
BoundApi ==
  [sink |-> 0, queue |-> 0, records |-> 0, time |-> 0, delays |-> {0},
   tags |-> {}, extras |-> 0]

InitApi ==
  /\ RecorderAtLoad(Opt(0, 0, 0, TRUE, "after", "load", "disabled"), BoundApi,
                    "complete", <<Element({})>>)
  /\ \E type \in {"jwt", "personalToken"}, hasRefresh \in BOOLEAN :
       ApiAtLoad(type, hasRefresh, MaxRequests)
  /\ BackgroundAtLoad(FALSE)

NextApi ==
  \/ Call
  \/ Respond
  \/ RespondRefresh
  \/ Stored
  \/ TokenExpires

SpecApi == InitApi /\ [][NextApi]_vars

\* ------------------------------------------------------------- the mirror
\* Three nodes in one of three shapes (a chain, a parent of two, no children);
\* add, replace, removeNodeFromMap and reset called in any order with any node
\* and any id, on the mirror as createMirror() leaves it.
Shapes ==
  {<<Element({2}), Element({3}), Element({})>>,
   <<Element({2, 3}), Element({}), Element({})>>,
   <<Element({}), Element({}), Element({})>>}

BoundMirror ==
  [sink |-> 0, queue |-> 0, records |-> 0, time |-> 0, delays |-> {0},
   tags |-> {}, extras |-> 0, ids |-> MaxId]

InitMirror ==
  \E pg \in Shapes :
    StartWith(Opt(0, 0, 0, TRUE, "after", "load", "disabled"), BoundMirror,
              "complete", pg)

NextMirror ==
  \/ MirrorAdd
  \/ MirrorReplace
  \/ MirrorRemoveNodeFromMap
  \/ MirrorReset

SpecMirror == InitMirror /\ [][NextMirror]_vars

\* ------------------------------------------------ the observed set and the DOM
\* One recording of a loaded document of three elements in one of three
\* shapes, whose topmost elements are removed from document.body and inserted
\* again with all they contain, the elements going in and out of view.
BoundDom ==
  [sink |-> MaxSinkVisibility, queue |-> 0, records |-> 1, time |-> 0,
   delays |-> {0}, tags |-> {"a"}, extras |-> MaxSinkVisibility]

InitDom ==
  \E shape \in Shapes :
    StartWith(Opt(0, 0, 0, TRUE, "after", "load", "none"), BoundDom, "complete", shape)

NextDom ==
  \/ Record
  \/ Frame
  \/ PageChange
  \/ DomInsert
  \/ DomRemove

SpecDom == InitDom /\ [][NextDom]_vars


\* ================================================================ properties
Types(q) == [i \in 1..Len(q) |-> q[i].type]

\* the events that may come before the first snapshot of a recording
Preamble == {"DomContentLoaded", "Load", "Custom"}

\* the place of the first event of q that is not a preamble event (0: none)
FirstBody(q) ==
  IF \A i \in 1..Len(q) : q[i].type \in Preamble THEN 0
  ELSE CHOOSE i \in 1..Len(q) :
         /\ q[i].type \notin Preamble
         /\ \A j \in 1..(i - 1) : q[j].type \in Preamble

C2_FullSnapshotAfterItsMeta ==
  \A i \in 1..Len(sink) :
    sink[i].type = "FullSnapshot" =>
      /\ i > 1
      /\ sink[i - 1].type = "Meta"
      /\ sink[i - 1].chk = sink[i].chk
      /\ sink[i - 1].trig = sink[i].trig

\* a checkout forced by an input event: Meta and FullSnapshot, both flagged
C2_Witness ==
  /\ Types(sink) = << "Meta", "FullSnapshot", "IncrementalSnapshot", "Meta", "FullSnapshot" >>
  /\ sink[5].trig.cause = "checkout"
  /\ sink[4].chk = "true" /\ sink[5].chk = "true"

\* the checkout predicates, from the values a snapshot was decided on
FiredCount(tr) == opts.checkoutEveryNth # 0 /\ tr.cnt >= opts.checkoutEveryNth
FiredTime(tr) == opts.checkoutEveryNms # 0 /\ tr.dt > opts.checkoutEveryNms
FiredVisibility(tr) == opts.checkoutEveryNvm # 0 /\ tr.vis >= opts.checkoutEveryNvm
Fired(tr) == FiredCount(tr) \/ FiredTime(tr) \/ FiredVisibility(tr)

\* the FullSnapshots of q after the first one
LaterFullSnapshots(q) ==
  {i \in 1..Len(q) : /\ q[i].type = "FullSnapshot"
                      /\ \E j \in 1..(i - 1) : q[j].type = "FullSnapshot"}

\* the recorder's state right after the FullSnapshot e was emitted
AfterFullSnapshot(e) ==
  /\ lastFullSnapshotEvent.type = "FullSnapshot"
  /\ lastFullSnapshotEvent.ts = e.ts
  /\ lastFullSnapshotEvent.trig = e.trig
  /\ FiredCount(e.trig) => incrementalSnapshotCount = 0
  /\ FiredVisibility(e.trig) => recentVisibilityChanges = 0

\* C3, as stated: every FullSnapshot after the first one is emitted only when a
\* checkout predicate held, and right after it the counter of the predicate
\* that fired is 0 and lastFullSnapshotEvent is that FullSnapshot.
C3_EveryLaterFullSnapshotOnPredicate ==
  /\ \A i \in LaterFullSnapshots(sink) : Fired(sink[i].trig)
  /\ (Len(sink) \in LaterFullSnapshots(sink)) => AfterFullSnapshot(sink[Len(sink)])

\* C3, amended: every FullSnapshot after the first one, other than those asked
\* for through record.takeFullSnapshot, is emitted only when a checkout
\* predicate held; right after any later FullSnapshot the incremental count is
\* 0, lastFullSnapshotEvent is that FullSnapshot, and the visibility count is 0
\* when the visibility predicate fired.
C3_CheckoutOnPredicate ==
  /\ \A i \in LaterFullSnapshots(sink) :
       \/ sink[i].trig.cause = "manual"
       \/ sink[i].trig.cause = "checkout" /\ Fired(sink[i].trig)
  /\ (Len(sink) \in LaterFullSnapshots(sink)) =>
       /\ AfterFullSnapshot(sink[Len(sink)])
       /\ incrementalSnapshotCount = 0

\* a checkout that only the visibility predicate forced, just emitted
C3_Witness ==
  /\ Len(sink) \in LaterFullSnapshots(sink)
  /\ sink[Len(sink)].trig.cause = "checkout"
  /\ FiredVisibility(sink[Len(sink)].trig)
  /\ ~FiredCount(sink[Len(sink)].trig) /\ ~FiredTime(sink[Len(sink)].trig)
  /\ recentVisibilityChanges = 0

\* the incremental events of q; the ones wrappedEmit counts are those that are
\* not attach-iframe mutations
Incrementals(q) == {i \in 1..Len(q) : q[i].type = "IncrementalSnapshot"}
Counted(q) == {i \in Incrementals(q) : ~(q[i].src = "Mutation" /\ q[i].attach)}

\* the place of the last FullSnapshot among the first i events of q (0: none)
LastFull(q, i) ==
  IF \E j \in 1..i : q[j].type = "FullSnapshot"
  THEN CHOOSE j \in 1..i :
         /\ q[j].type = "FullSnapshot"
         /\ \A k \in (j + 1)..i : q[k].type # "FullSnapshot"
  ELSE 0

\* how many events of the set S lie after the last FullSnapshot, up to place i
SinceFull(q, S, i) == Cardinality({j \in S : LastFull(q, i) < j /\ j <= i})

\* the place of the k-th incremental event of q
IncrementalAt(q, k) ==
  CHOOSE i \in Incrementals(q) : Cardinality({j \in Incrementals(q) : j <= i}) = k

\* q holds exactly n incremental events, all of them plain mutations
OnlyMutations(q, n) ==
  /\ Cardinality(Incrementals(q)) = n
  /\ \A i \in Incrementals(q) : q[i].src = "Mutation" /\ ~q[i].attach

\* With S the events that count: the counter is the number of them since the
\* last FullSnapshot; each one that brings the number to N is followed at once
\* by a checkout (Meta, FullSnapshot); a later FullSnapshot comes only so; and
\* with N = 5, 12 attribute mutations give two later FullSnapshots, delivered
\* right before the 6th and the 11th mutation.
CheckoutEveryNth(S) ==
  LET N == opts.checkoutEveryNth
  IN /\ incrementalSnapshotCount = SinceFull(sink, S, Len(sink))
     /\ \A i \in S :
          SinceFull(sink, S, i) = N =>
            /\ i + 2 <= Len(sink)
            /\ sink[i + 1].type = "Meta" /\ sink[i + 1].chk = "true"
            /\ sink[i + 2].type = "FullSnapshot" /\ sink[i + 2].chk = "true"
     /\ \A i \in LaterFullSnapshots(sink) :
          i - 2 \in S /\ SinceFull(sink, S, i - 2) = N
     /\ (N = 5 /\ OnlyMutations(sink, 12)) =>
          LaterFullSnapshots(sink) =
            {IncrementalAt(sink, 6) - 1, IncrementalAt(sink, 11) - 1}

\* C4, as stated: with checkoutEveryNth = N the only checkout option, a
\* checkout is forced exactly each time the number of IncrementalSnapshot
\* events since the last FullSnapshot reaches N, the count restarting at 0;
\* N = 5 and 12 attribute mutations give exactly 2 later FullSnapshots, at the
\* 6th and 11th incrementals.
C4_EveryNthIncremental == CheckoutEveryNth(Incrementals(sink))

\* C4, amended: the same, counting the IncrementalSnapshot events other than
\* attach-iframe mutations; the two later FullSnapshots of the example are
\* delivered after the 5th and the 10th mutation, right before the 6th and 11th.
C4_EveryNthCountedIncremental == CheckoutEveryNth(Counted(sink))

\* checkoutEveryNth = 5 and 12 attribute mutations: FullSnapshots at places 2,
\* 9 and 16 of a stream of 18 events
C4_Witness ==
  /\ opts.checkoutEveryNth = 5
  /\ OnlyMutations(sink, 12)
  /\ {i \in 1..Len(sink) : sink[i].type = "FullSnapshot"} = {2, 9, 16}
  /\ Len(sink) = 18

\* C5: after every FullSnapshot, whatever triggered it, the visibility-change
\* count is 0; and the count never rests at checkoutEveryNvm or above (the
\* incremental that finds it there forces a checkout).
C5_VisibilityCountSinceFullSnapshot ==
  /\ (Len(sink) > 0 /\ sink[Len(sink)].type = "FullSnapshot") =>
       recentVisibilityChanges = 0
  /\ opts.checkoutEveryNvm # 0 => recentVisibilityChanges < opts.checkoutEveryNvm

\* C6: the timestamps of the delivered events never decrease along the stream.
C6_TimestampsNonDecreasing ==
  \A i, j \in 1..Len(sink) : i < j => sink[i].ts <= sink[j].ts

\* the stop handle of the recording in course has been invoked after its init
Stopped ==
  /\ wrappedEmitGen \in attached.ever
  /\ wrappedEmitGen \notin attached.live

\* C7: once the stop handle has been invoked, no event is delivered to the
\* sink of that recording any more.
C7_NoEmitAfterStop ==
  [][(Stopped /\ wrappedEmitGen' = wrappedEmitGen) => sink' = sink]_vars

\* C8: a second invocation of a stop handle delivers nothing and changes no
\* recorder state.
C8_StopIdempotent ==
  [][\A g \in handles, d \in Delays :
       (/\ g \in attached.ever /\ g \notin attached.live
        /\ Commit(StopHandle(Cur, g, d)))
       => UNCHANGED << sink, recording, customEventQueue, idNodeMap, nodeMetaMap,
                       errorHandlerRegistered >>]_vars

\* C9: after the stop handle has been invoked the mirror is in its reset
\* state: it has no id and no node.
C9_MirrorResetAfterStop ==
  Stopped =>
    /\ \A id \in 1..nextId : ~Mirror_has(Cur, id) /\ Mirror_getNode(Cur, id) = 0
    /\ \A n \in Nodes : Mirror_getId(Cur, n) = -1

\* C10: while a recording is active, a call of record() leaves the mirror, the
\* emit path and the checkout counters as they are.
C10_SecondRecordLeavesRecording ==
  [][(recording /\ \E d \in Delays : Commit(RecordCall(Cur, d)))
       => UNCHANGED << idNodeMap, nodeMetaMap, wrappedEmitGen,
                       lastFullSnapshotEvent, incrementalSnapshotCount,
                       recentVisibilityChanges >>]_vars

\* ------------------------------------------------------------------- C11
\* the tags of the custom events of a stream, in delivery order
RECURSIVE CustomTags(_)
CustomTags(q) ==
  IF q = << >> THEN << >>
  ELSE IF Head(q).type = "Custom" THEN <<Head(q).src>> \o CustomTags(Tail(q))
  ELSE CustomTags(Tail(q))

\* what a step delivered: the stream after it, without the stream before it
Delivered ==
  IF wrappedEmitGen' = wrappedEmitGen
  THEN SubSeq(sink', Len(sink) + 1, Len(sink'))
  ELSE sink'

\* a step in which a recording started: its observers were installed
Started == attached'.ever # attached.ever

Active == wrappedEmitGen # 0 /\ wrappedEmitGen \in attached.live

C13_NoEmitInstallsNothing ==
  [][(/\ InEmittingFrame /\ ~opts.emit
      /\ \E d \in Delays : Commit(RecordCall(Cur, d)))
     => /\ outcome' = "escaped"
        /\ UNCHANGED << attached, listening, handles, bufExists, idNodeMap,
                        nodeMetaMap, sink, posted >>
        /\ (opts.errorHandler => UNCHANGED errorHandlerRegistered)]_vars

\* ------------------------------------------------------------------- C14
\* a step in which emit threw
EmitThrew == emitFuse > 0 /\ emitFuse' = 0

\* C14: when emit throws, the failure goes to the errorHandler if one is
\* configured and is swallowed otherwise, so the operation that caused the
\* emission does not end with an exception; what the stream held stays in it,
\* and a custom event the step delivered is not left in the queue to be
\* delivered again.
C14_EmitFailureContained ==
  [][EmitThrew =>
       /\ outcome' = IF opts.errorHandler THEN "handled" ELSE "swallowed"
       /\ wrappedEmitGen' = wrappedEmitGen => SubSeq(sink', 1, Len(sink)) = sink
       /\ Len(customEventQueue') + Len(CustomTags(Delivered))
            <= Len(customEventQueue)]_vars

\* ------------------------------------------------------------------- C15
\* the marks of the plugins that have an eventProcessor, in declaration order
PluginMarks ==
  LET with == SelectSeq(opts.plugins, LAMBDA pl : pl.eventProcessor)
  IN [i \in 1..Len(with) |-> with[i].name]

\* C15: what the sink is handed has gone through the eventProcessor of each
\* plugin that has one, in declaration order, each on the output of the one
\* before, and then through packFn, once and last, if there is a packFn; what
\* is posted to a parent frame has gone through the plugins only.
C15_PluginsInOrderThenPack ==
  /\ \A i \in 1..Len(sink) :
       sink[i].proc = PluginMarks \o (IF opts.packFn THEN <<"pack">> ELSE << >>)
  /\ \A i \in 1..Len(posted) : posted[i].event.proc = PluginMarks

\* an emitting frame with plugins p, n (no eventProcessor) and q and a packFn
\* has delivered a custom event marked p, q, pack
C15_Witness ==
  /\ InEmittingFrame /\ opts.packFn /\ Len(opts.plugins) = 3
  /\ \E i \in 1..Len(sink) :
       sink[i].type = "Custom" /\ sink[i].proc = <<"p", "q", "pack">>

\* ------------------------------------------------------------------- C16
\* C16: in a pass-through child frame every event goes to window.parent as a
\* message {type: 'rrweb', event, origin, isCheckout}, starting with the Meta
\* and the FullSnapshot of the recording; emit is never called and the event
\* posted has not gone through packFn.
C16_PassThroughPostsUnpacked ==
  opts.recordCrossOriginIframes /\ opts.frame = "crossOriginChild" =>
    /\ sink = << >>
    /\ \A i \in 1..Len(posted) :
         /\ posted[i].type = "rrweb" /\ posted[i].origin = "child"
         /\ \A j \in 1..Len(posted[i].event.proc) : posted[i].event.proc[j] # "pack"
         /\ posted[i].isCheckout =
              IF posted[i].event.trig.cause = "init" THEN "false"
              ELSE IF posted[i].event.trig.cause = "checkout" THEN "true"
              ELSE "undef"
    /\ recording =>
         /\ Len(posted) >= 2
         /\ posted[1].event.type = "Meta" /\ posted[2].event.type = "FullSnapshot"

\* a pass-through child frame with a packFn has posted its first snapshot, a
\* user input and the snapshot of a checkout
C16_Witness ==
  /\ opts.recordCrossOriginIframes /\ opts.frame = "crossOriginChild"
  /\ opts.packFn /\ opts.plugins # << >>
  /\ Len(posted) >= 4
  /\ posted[3].event.type = "IncrementalSnapshot"
  /\ posted[4].event.type = "Meta" /\ posted[4].isCheckout = "true"

\* ------------------------------------------------------- C17, C18 and C19
\* the VisibilityMutation events of a stream
VisibilityEvents(q) ==
  {i \in 1..Len(q) : q[i].type = "IncrementalSnapshot"
                       /\ q[i].src = "VisibilityMutation"}

\* a step that is a frame of the rAF loop whose pass evaluates the elements
\* after the initial pass, with nothing in the way of an immediate emission
FramePass ==
  /\ visibilityManager.rafId /\ visibilityManager.hasInitialized
  /\ ~visibilityManager.frozen /\ ~visibilityManager.locked
  /\ \E d \in Delays : Commit(Loop(Cur, TRUE, d))

\* what the page shows of an element now
NowVisible(el) == page[el].style /\ page[el].ratio > Threshold

\* an element with a previous entry whose visibility flipped
Flipped(el) ==
  /\ el \in DOMAIN visibilityManager.previousState
  /\ visibilityManager.previousState[el].isVisible # NowVisible(el)

\* an element with a previous entry whose intersection ratio moved by more
\* than the sensitivity
RatioMoved(el) ==
  /\ el \in DOMAIN visibilityManager.previousState
  /\ Abs(page[el].ratio - visibilityManager.previousState[el].intersectionRatio)
       > Sensitivity

\* the observed elements that changed since their previous entry
ChangedElements ==
  {el \in visibilityManager.elements : Flipped(el) \/ RatioMoved(el)}

\* the step delivered one VisibilityMutation event, with one entry per element
\* of S holding the element's id and its latest visibility and ratio
OneEventFor(S) ==
  /\ Cardinality(VisibilityEvents(Delivered)) = 1
  /\ \A i \in VisibilityEvents(Delivered) :
       /\ DOMAIN Delivered[i].mutations = S
       /\ \A el \in S :
            Delivered[i].mutations[el] =
              [id |-> nodeMetaMap'[el], isVisible |-> NowVisible(el),
               ratio |-> page[el].ratio]

\* C17: in mode "none" a frame pass in which k >= 1 observed elements changed
\* delivers exactly one VisibilityMutation event with exactly k entries, one
\* per changed element with its latest id, isVisible and ratio; a pass in
\* which no element changed delivers none.
C17_OneEventPerChangedPass ==
  [][opts.vmMode = "none" /\ FramePass =>
       IF ChangedElements # {}
       THEN OneEventFor(ChangedElements)
       ELSE VisibilityEvents(Delivered) = {}]_vars

\* C18: in a frame pass, for an element that has a previous entry, a change is
\* recorded, and in mode "none" emitted at once, exactly when its isVisible
\* flipped or its ratio moved by more than the sensitivity.
C18_FlipOrRatioDelta ==
  [][opts.vmMode = "none" /\ FramePass =>
       \A el \in visibilityManager.elements :
         el \in DOMAIN visibilityManager.previousState =>
           ((\E i \in VisibilityEvents(Delivered) : el \in DOMAIN Delivered[i].mutations)
              <=> (Flipped(el) \/ RatioMoved(el)))]_vars

\* C19: the first evaluation pass of a visibility manager delivers nothing,
\* leaves nothing buffered and schedules nothing, whatever the flush mode and
\* whatever the elements look like, and keeps their classification as the
\* state later passes compare with; no VisibilityMutation event is in the
\* stream before that pass is over.
C19_FirstPassSilent ==
  /\ [](~visibilityManager.hasInitialized => VisibilityEvents(sink) = {})
  /\ [][/\ ~visibilityManager.hasInitialized /\ visibilityManager'.hasInitialized
           => /\ Delivered = << >>
              /\ visibilityManager'.buffer = << >>
              /\ ~visibilityManager'.debounceTimer
              /\ DOMAIN visibilityManager'.previousState = Nodes
              /\ \A el \in Nodes :
                   visibilityManager'.previousState[el].isVisible = NowVisible(el)]_vars

\* an element was visible when the first pass ran, which delivered nothing;
\* the element then went out of view and the next pass reported it
C19_Witness ==
  /\ visibilityManager.hasInitialized
  /\ Len(sink) = 3
  /\ VisibilityEvents(sink) = {3}
  /\ DOMAIN sink[3].mutations = {1}
  /\ ~sink[3].mutations[1].isVisible
  /\ opts.vmMode = "debounce"

\* ------------------------------------------------------------------- C20
\* C20: when the lower-cased tag name or the lower-cased type is enabled in
\* maskInputOptions, maskInputValue returns the output of maskInputFn if one
\* is given and otherwise as many '*' as the value has characters and nothing
\* else, the same for every value of that length; when neither is enabled it
\* returns the value unchanged, and the empty string for a null value.
C20_MaskInputValue ==
  maskCall.called =>
    LET in == maskCall.in
        out == maskCall.out
        value == IF in.value = Null THEN << >> ELSE in.value
        masked == \/ ToLowerCase(in.tagName) \in in.maskInputOptions
                  \/ /\ in.type \notin {Null, << >>}
                     /\ ToLowerCase(in.type) \in in.maskInputOptions
    IN IF ~masked THEN out = value
       ELSE IF in.maskInputFn THEN out = MaskInputFn(value)
       ELSE /\ Len(out) = Len(value)
            /\ \A i \in 1..Len(out) : out[i] = "*"
            /\ \A other \in MaskValues :
                 other # Null /\ Len(other) = Len(value) =>
                   MaskInputValue([in EXCEPT !.value = other]) = out

\* a textarea's value of MaxLen characters was masked on its upper-case tag
\* name alone, and the result is all '*'
C20_Witness ==
  /\ maskCall.called
  /\ maskCall.in.tagName = <<"T", "E", "X", "T", "A", "R", "E", "A">>
  /\ maskCall.in.type = Null
  /\ maskCall.in.maskInputOptions = {<<"t", "e", "x", "t", "a", "r", "e", "a">>}
  /\ ~maskCall.in.maskInputFn
  /\ Len(maskCall.in.value) = MaxLen /\ maskCall.in.value[1] = "S"
  /\ maskCall.out = Repeat("*", MaxLen)

\* the mirror as its callers see it
GetId(n) == Mirror_getId(Cur, n)
Has(id) == Mirror_has(Cur, id)
GetNode(id) == Mirror_getNode(Cur, id)

\* C21: under any sequence of add, replace and removeNodeFromMap, a node that
\* has an id keeps that id until reset(), and no two distinct nodes have the
\* same id at the same time.
C21_IdsStableAndUnique ==
  /\ [](\A a, b \in Nodes : (GetId(a) # -1 /\ GetId(a) = GetId(b)) => a = b)
  /\ [][lastCall'.op # "reset"
          => \A n \in Nodes : GetId(n) # -1 => GetId(n)' = GetId(n)]_vars

\* C22: removeNodeFromMap(n) removes the id-to-node entries of n and of every
\* descendant of n and leaves the node-to-serialized side as it is; no call
\* other than reset() removes anything from the node-to-serialized side, and
\* reset() empties both sides.
C22_RemoveKeepsMeta ==
  [][/\ lastCall'.op = "removeNodeFromMap"
          => /\ \A m \in Subtree(lastCall'.node) :
                   GetId(m) # -1 => /\ ~Has(GetId(m))'
                                    /\ GetNode(GetId(m))' = 0
             /\ nodeMetaMap' = nodeMetaMap
     /\ lastCall'.op # "reset"
          => \A n \in DOMAIN nodeMetaMap :
               n \in DOMAIN nodeMetaMap' /\ (lastCall'.op # "add" /\ lastCall'.op # "replace"
                                              => nodeMetaMap'[n] = nodeMetaMap[n])
     /\ lastCall'.op = "reset"
          => idNodeMap' = << >> /\ nodeMetaMap' = << >>]_vars

\* removeNodeFromMap was called for a node with a child, both registered, and a
\* registered node outside the subtree: the ids of the subtree are gone from the
\* id side and still on the node side
C22_Witness ==
  /\ lastCall.op = "removeNodeFromMap"
  /\ lastCall.node = 2
  /\ page[2].childNodes = {3}
  /\ GetId(2) = 1 /\ GetId(3) = 2 /\ GetId(1) = -1
  /\ ~Has(1) /\ ~Has(2)

\* the sequential-id plugin of the recording
SequentialId == CHOOSE pl \in {opts.plugins[i] : i \in DOMAIN opts.plugins} :
                  pl.name = PLUGIN_NAME

\* the values the event holds under the key of the plugin
IdsOf(e) == {kv[2] : kv \in {x \in e.props : x[1] = SequentialId.key}}

\* C23: every event the sequential-id plugin has processed holds one integer
\* under the configured key and under no other key: with the local counter 1
\* for the first event of the plugin instance and the previous id + 1 for each
\* next one, with getId a value the callback has handed out; the ids of the
\* events delivered to the sink are strictly increasing in delivery order,
\* events emitted inside another emission included.
C23_SequentialIds ==
  /\ \A i \in 1..Len(sink) :
       /\ Cardinality(IdsOf(sink[i])) = 1
       /\ \A kv \in sink[i].props : kv[1] = SequentialId.key
  /\ \A i, j \in 1..Len(sink) :
       i < j => \A a \in IdsOf(sink[i]), b \in IdsOf(sink[j]) : a < b
  /\ ~SequentialId.getId =>
       /\ \A i \in 1..Len(sink) - 1 :
            IdsOf(sink[i + 1]) = {a + 1 : a \in IdsOf(sink[i])}
       /\ Len(sink) > 0 => IdsOf(sink[Len(sink)]) = {localId}
       /\ Len(sink) > 0 /\ wrappedEmitGen = 1 => IdsOf(sink[1]) = {1}
       /\ callbackId = 0
  /\ SequentialId.getId =>
       /\ \A i \in 1..Len(sink) : \A a \in IdsOf(sink[i]) : a \in 1..callbackId
       /\ localId = 0

\* with the local counter, under a key other than the default: a Mutation event
\* flushed from the frozen buffer inside the emission of a Custom event, and
\* the Meta of the checkout this Mutation event forced, hold the ids between
\* those of the events before and after them
C23_Witness ==
  /\ ~SequentialId.getId /\ SequentialId.key = "seq"
  /\ \E i \in 2..Len(sink) - 2 :
       /\ sink[i].type = "IncrementalSnapshot" /\ sink[i].src = "Mutation"
       /\ sink[i + 1].type = "Meta" /\ sink[i + 1].trig.cause = "checkout"
       /\ sink[Len(sink)].type = "Custom"
       /\ IdsOf(sink[i]) = {i} /\ IdsOf(sink[i + 1]) = {i + 1}
       /\ IdsOf(sink[Len(sink)]) = {Len(sink)}

\* no request is on the wire and no handler waits for the storage: nothing
\* more happens unless a caller makes another request
Quiescent ==
  \A r \in DOMAIN requests : requests[r].phase \notin {"inflight", "storing"}

\* C24: a request answered with 401 under JWT authentication is sent again,
\* once and no more, with a token the refresh has issued and the settings
\* hold, and its caller is given the result of the request sent again (or,
\* when the token could not be refreshed, the failure of the refresh).
C24_RefreshAndRetryOnce ==
  \A r \in DOMAIN requests \ {Refresh} :
    /\ requests[r].reissued <= 1
    /\ requests[r].reissued = 1
         => /\ requests[r].authorization \in 2..server.issued
            /\ apiSettings.jwtAccessToken >= requests[r].authorization
    /\ requests[r].answered401 /\ Quiescent
         => \/ requests[r].reissued = 1 /\ requests[r].result \in {"ok", "401"}
            \/ requests[r].reissued = 0 /\ requests[r].result = "refreshError"

\* ------------------------------------------------------------------- C25
\* the elements a frame pass finds changed and buffers
Buffered == {el \in ChangedElements : GetId(el) # -1}

\* the step delivered the whole buffer as one VisibilityMutation event and
\* left the buffer empty
BufferDelivered ==
  /\ Cardinality(VisibilityEvents(Delivered)) = 1
  /\ \A i \in VisibilityEvents(Delivered) :
       Delivered[i].mutations = visibilityManager.buffer
  /\ visibilityManager'.buffer = << >>

\* C25: in mode debounce(t) a frame pass that buffers a change restarts the
\* timer to fire t later and delivers nothing itself; a VisibilityMutation
\* event is delivered only by the timer firing, no earlier than its due time,
\* and carries all buffered changes; and a frame pass in which nothing changed
\* leaves the due time of the timer that holds buffered changes as it is, so
\* that these are emitted while the frame loop keeps running.
C25_DebounceRestartsOnChange ==
  /\ [][opts.vmMode = "debounce" /\ FramePass /\ Buffered # {}
          => /\ visibilityManager'.debounceTimer
             /\ visibilityManager'.debounceDue = now + opts.vmDebounce
             /\ VisibilityEvents(Delivered) = {}]_vars
  /\ [][opts.vmMode = "debounce" /\ VisibilityEvents(Delivered) # {}
          => /\ visibilityManager.debounceTimer
             /\ ~visibilityManager'.debounceTimer
             /\ now >= visibilityManager.debounceDue
             /\ BufferDelivered]_vars
  /\ [][(opts.vmMode = "debounce" /\ FramePass /\ Buffered = {}
            /\ visibilityManager.debounceTimer
            /\ visibilityManager.buffer # << >>)
          => visibilityManager'.debounceDue = visibilityManager.debounceDue]_vars

\* the first two parts of C25 alone: restart on a buffered change, delivery
\* by the timer at its due time or later
C25_DebounceSafety ==
  /\ [][opts.vmMode = "debounce" /\ FramePass /\ Buffered # {}
          => /\ visibilityManager'.debounceTimer
             /\ visibilityManager'.debounceDue = now + opts.vmDebounce
             /\ VisibilityEvents(Delivered) = {}]_vars
  /\ [][opts.vmMode = "debounce" /\ VisibilityEvents(Delivered) # {}
          => /\ visibilityManager.debounceTimer
             /\ ~visibilityManager'.debounceTimer
             /\ now >= visibilityManager.debounceDue
             /\ BufferDelivered]_vars

\* ------------------------------------------------------------------- C26
\* when the last VisibilityMutation event of the stream was emitted (0: the
\* start of the clock, none emitted yet)
LastEmit ==
  IF VisibilityEvents(sink) = {} THEN 0
  ELSE sink[CHOOSE i \in VisibilityEvents(sink) :
              \A j \in VisibilityEvents(sink) : j <= i].ts

\* what the buffer holds once a pass has added the changes it found
BufferAfterPass ==
  [el \in DOMAIN visibilityManager.buffer \cup Buffered |->
     IF el \in Buffered
     THEN [id |-> GetId(el), isVisible |-> NowVisible(el), ratio |-> page[el].ratio]
     ELSE visibilityManager.buffer[el]]

\* C26: in mode throttle(t) a frame pass with changes to emit emits them, all
\* in one event, if and only if t has passed since the last emission, and
\* otherwise keeps them in the buffer; any two VisibilityMutation events of
\* the stream are at least t apart.
C26_ThrottleEmitsIffDue ==
  /\ [][(opts.vmMode = "throttle" /\ FramePass /\ BufferAfterPass # << >>)
          => IF now - LastEmit >= opts.vmThrottle
             THEN /\ Cardinality(VisibilityEvents(Delivered)) = 1
                  /\ \A i \in VisibilityEvents(Delivered) :
                       Delivered[i].mutations = BufferAfterPass
                  /\ visibilityManager'.buffer = << >>
             ELSE /\ VisibilityEvents(Delivered) = {}
                  /\ visibilityManager'.buffer = BufferAfterPass]_vars
  /\ [](opts.vmMode = "throttle" =>
          \A i, j \in VisibilityEvents(sink) :
            i < j => sink[j].ts - sink[i].ts >= opts.vmThrottle)

\* the parts of C26 about what a pass does with the buffer and about the
\* distance of two events, the gate being the time since the last pass that
\* was let through
C26_ThrottleSpacing ==
  /\ [][(opts.vmMode = "throttle" /\ FramePass /\ BufferAfterPass # << >>)
          => IF now - visibilityManager.lastThrottleTime >= opts.vmThrottle
             THEN /\ Cardinality(VisibilityEvents(Delivered)) = 1
                  /\ \A i \in VisibilityEvents(Delivered) :
                       Delivered[i].mutations = BufferAfterPass
                  /\ visibilityManager'.buffer = << >>
             ELSE /\ VisibilityEvents(Delivered) = {}
                  /\ visibilityManager'.buffer = BufferAfterPass]_vars
  /\ [](opts.vmMode = "throttle" =>
          \A i, j \in VisibilityEvents(sink) :
            i < j => sink[j].ts - sink[i].ts >= opts.vmThrottle)

\* ------------------------------------------------------------------- C27
\* a step that is a frame of the rAF loop
FrameStep ==
  /\ visibilityManager.rafId
  /\ \E d \in Delays : Commit(Loop(Cur, TRUE, d))

\* C27: a frame pass that finds the manager frozen or locked, or nothing
\* observed, changes nothing in the manager and delivers nothing; and no step
\* taken while the manager is frozen or locked delivers a VisibilityMutation
\* event or counts visibility changes (notifyActivity), in any flush mode.
C27_NothingWhileHeld ==
  /\ [][(FrameStep /\ (\/ visibilityManager.frozen \/ visibilityManager.locked
                        \/ visibilityManager.elements = {}))
          => /\ visibilityManager' = visibilityManager
             /\ Delivered = << >>]_vars
  /\ [][(visibilityManager.frozen \/ visibilityManager.locked)
          => /\ VisibilityEvents(Delivered) = {}
             /\ recentVisibilityChanges' = recentVisibilityChanges]_vars

\* the part of C27 about frame passes alone
C27_HeldPassSkipped ==
  [][(FrameStep /\ (\/ visibilityManager.frozen \/ visibilityManager.locked
                    \/ visibilityManager.elements = {}))
       => /\ visibilityManager' = visibilityManager
          /\ Delivered = << >>]_vars

\* ------------------------------------------------------------------- C28
\* C28: once reset() has been called the manager has no pending rAF callback,
\* no observed element, no previous state, nothing buffered and no debounce
\* timer running, and no VisibilityMutation event is delivered any more.
C28_ResetClearsAll ==
  /\ [](lastCall.op = "VisibilityManager.reset"
          => /\ ~visibilityManager.rafId
             /\ visibilityManager.elements = {}
             /\ visibilityManager.previousState = << >>
             /\ visibilityManager.buffer = << >>
             /\ ~visibilityManager.debounceTimer)
  /\ [][lastCall.op = "VisibilityManager.reset"
          => VisibilityEvents(Delivered) = {}]_vars

\* the part of C28 that concerns the frame loop, the observed set and the
\* previous-state map
C28_ResetStopsPasses ==
  [](lastCall.op = "VisibilityManager.reset"
       => /\ ~visibilityManager.rafId
          /\ visibilityManager.elements = {}
          /\ visibilityManager.previousState = << >>)

\* the last part of C28 alone: no VisibilityMutation event is delivered after
\* reset()
C28_EmittedAfterReset ==
  [][lastCall.op = "VisibilityManager.reset"
       => VisibilityEvents(Delivered) = {}]_vars

\* ------------------------------------------------------------------- C29
\* C29: whatever subtrees were inserted under document.body and removed from
\* it, the manager observes exactly the elements that are in the document:
\* each element of an inserted subtree is observed, and no element of a
\* removed subtree is observed or has a previous-state entry.
C29_ObservedInSync ==
  (visibilityManager.owner # 0 /\ ~visibilityManager.disabled) =>
     \A el \in Nodes :
       IF el \in InDocument
       THEN el \in visibilityManager.elements
       ELSE /\ el \notin visibilityManager.elements
            /\ el \notin DOMAIN visibilityManager.previousState

\* the part of C29 about insertions and about the removed element itself
C29_InsertedObserved ==
  (visibilityManager.owner # 0 /\ ~visibilityManager.disabled) =>
     /\ \A el \in InDocument : el \in visibilityManager.elements
     /\ \A el \in Roots :
          ~page[el].connected =>
             /\ el \notin visibilityManager.elements
             /\ el \notin DOMAIN visibilityManager.previousState

\* ------------------------------------------------------------------- C30
\* the plain Mutation events of a stream
MutationEvents(q) ==
  {i \in 1..Len(q) : /\ q[i].type = "IncrementalSnapshot"
                      /\ q[i].src = "Mutation" /\ ~q[i].attach}

\* C30: a step that delivers a FullSnapshot event delivers it right after its
\* Meta event, nothing of the mutation buffer in between, and ends with the
\* buffer unlocked; where the page changed while it was serialized and a
\* mutation buffer exists, the mutations enqueued meanwhile are delivered as
\* one Mutation event right after the FullSnapshot event, and none is left
\* in the buffer.
C30_FullSnapshotBeforeLockedMutations ==
  [][\A i \in 1..Len(Delivered) :
       Delivered[i].type = "FullSnapshot" =>
         /\ ~bufLocked'
         /\ i > 1 /\ Delivered[i - 1].type = "Meta"
         /\ (opts.mutatesWhileSerializing /\ bufExists) =>
              /\ i < Len(Delivered) /\ i + 1 \in MutationEvents(Delivered)
              /\ \A j \in MutationEvents(Delivered) : j < i - 1 \/ j = i + 1
              /\ ~bufPending']_vars

\* record.takeFullSnapshot() on a page that changed while it was serialized:
\* the stream holds the second Meta and FullSnapshot and then the Mutation
\* event of the changes
C30_Witness ==
  /\ opts.mutatesWhileSerializing
  /\ Len(sink) = 5
  /\ sink[3].type = "Meta" /\ sink[4].type = "FullSnapshot"
  /\ MutationEvents(sink) = {5}
  /\ ~bufLocked /\ ~bufPending

\* ------------------------------------------------------------------- C31
\* the Mutation events of a stream, those of an attached iframe included
AllMutationEvents(q) ==
  {i \in 1..Len(q) : q[i].type = "IncrementalSnapshot" /\ q[i].src = "Mutation"}

\* the events of a stream that unfreeze the mutation buffers when emitted
Unfreezing(q) ==
  {i \in 1..Len(q) : q[i].type # "FullSnapshot" /\ i \notin AllMutationEvents(q)}

\* what a step taken with the buffers frozen delivers: nothing of the buffer
\* as long as no unfreezing event is emitted; with the first unfreezing event,
\* the coalesced mutations (if any) as one Mutation event before it, and no
\* buffer is frozen afterwards
FrozenStep(held(_)) ==
  IF Unfreezing(Delivered) = {}
  THEN held(Delivered) = {} /\ bufFrozen' /\ bufPending' = bufPending
  ELSE /\ ~bufFrozen' /\ ~bufPending'
       /\ IF bufPending
          THEN 1 \in MutationEvents(Delivered) /\ 2 \in Unfreezing(Delivered)
          ELSE 1 \in Unfreezing(Delivered)

\* C31 (as stated): while the page is frozen no Mutation event is emitted;
\* the first emitted event that is neither a FullSnapshot nor a Mutation
\* unfreezes the buffers first, so the coalesced mutations are delivered
\* before it, and afterwards no buffer is frozen.
C31_NoMutationWhileFrozen ==
  [][(bufFrozen /\ Delivered # << >>) => FrozenStep(AllMutationEvents)]_vars

\* C31 (amended): as above, except that the Mutation event of an attached
\* iframe, which does not come from a mutation buffer, is emitted while the
\* page is frozen and leaves it frozen.
C31_FrozenHoldsBufferedMutations ==
  [][(bufFrozen /\ Delivered # << >>) => FrozenStep(MutationEvents)]_vars

\* record.takeFullSnapshot() was called on a frozen page with coalesced
\* mutations (no incremental event counted yet when it was called): the
\* Mutation event was delivered before the Meta event that unfroze the page
C31_Witness ==
  /\ Types(sink) = << "Meta", "FullSnapshot", "IncrementalSnapshot", "Meta", "FullSnapshot" >>
  /\ MutationEvents(sink) = {3}
  /\ sink[4].trig.cause = "manual" /\ sink[4].trig.cnt = 0
  /\ ~bufFrozen /\ ~bufPending

\* ------------------------------------------------ snapshots that can fail
\* One recording of a loaded document that is at times not accessible to
\* snapshot(): DOM mutations, user input and the clock, with or without DOM
\* recording and checkout thresholds.
BoundAbort ==
  [sink |-> MaxSinkAbort, queue |-> 0, records |-> 1, time |-> MaxTime,
   delays |-> {0}, tags |-> {"a"}, extras |-> MaxExtras]

InitAbort ==
  \E nth \in {0, 2}, nms \in {0, 1}, dom \in BOOLEAN :
    Start(Opt(nth, nms, 0, dom, "after", "load", "disabled"),
          BoundAbort, "complete", {1})

\* the document becomes inaccessible to snapshot(), or accessible again
DocumentAccess ==
  /\ documentAccessible' = ~documentAccessible
  /\ UNCHANGED << recorderVars, apiVars, backgroundVars >>

NextAbort ==
  \/ Record
  \/ DocumentAccess
  \/ DomMutation
  \/ UserInput
  \/ Tick

SpecAbort == InitAbort /\ [][NextAbort]_vars

\* ------------------------------------------------------------------- C32
\* C32: after a takeFullSnapshot whose serialization failed the recording
\* continues, mutation events included: on a page that is not frozen, no
\* mutation handed to the mutation buffer is held back between two operations.
C32_MutationsEmittedAfterAbort ==
  (recording /\ ~bufFrozen) => ~bufPending

\* the part of C32 that the code keeps: an aborted snapshot emits no
\* FullSnapshot event and leaves the checkout counters as they were
C32_AbortKeepsCounters ==
  [][(~documentAccessible /\ "Meta" \in {Delivered[i].type : i \in DOMAIN Delivered})
       => /\ "FullSnapshot" \notin {Delivered[i].type : i \in DOMAIN Delivered}
          /\ lastFullSnapshotEvent' = lastFullSnapshotEvent
          /\ incrementalSnapshotCount' >= incrementalSnapshotCount]_vars

\* ------------------------------------------------------------------- C34
\* C34: whenever an IncrementalSnapshot is emitted with checkoutEveryNms set,
\* lastFullSnapshotEvent is defined when the time predicate is evaluated.
C34_BaselineDefined ==
  [][(/\ opts.checkoutEveryNms # 0
      /\ Delivered # << >>
      /\ Head(Delivered).type = "IncrementalSnapshot"
      /\ ~(Head(Delivered).src = "Mutation" /\ Head(Delivered).attach))
       => lastFullSnapshotEvent # NoEvent]_vars

\* ------------------------------------------------------------------- C35
\* C35: every call of takeFullSnapshot returns with every mutation buffer
\* unlocked, so no buffer is locked between two operations.
C35_BuffersUnlocked == ~bufLocked

\* ------------------------------------------- unobserving with a full buffer
\* One recording of a loaded document with two elements under document.body
\* going in and out of view, removed from the document and inserted again, in
\* each flush mode: the debounce timer fires as a task of its own, the
\* throttle interval is one clock tick.
BoundUnobserve ==
  [sink |-> MaxSinkVisibility, queue |-> 0, records |-> 1, time |-> MaxTimeVisibility,
   delays |-> {0}, tags |-> {"a"}, extras |-> MaxSinkVisibility]

InitUnobserve ==
  \E mode \in {"none", "debounce", "throttle"} :
    Start(Opt(0, 0, 0, TRUE, "after", "load", mode), BoundUnobserve,
          "complete", {1, 2})

NextUnobserve ==
  \/ Record
  \/ Frame
  \/ DebounceTimer
  \/ PageChange
  \/ DomInsert
  \/ DomRemove
  \/ Tick

SpecUnobserve == InitUnobserve /\ [][NextUnobserve]_vars

\* ------------------------------------------------------------------- C36
\* the elements a delivered VisibilityMutation event has an entry for
EntriesDelivered ==
  UNION {DOMAIN Delivered[i].mutations : i \in VisibilityEvents(Delivered)}

\* C36: after unobserve(el) no VisibilityMutation event emitted later has an
\* entry for el: every entry of an emitted event is for an element that is
\* observed when the event is emitted.
C36_NoEntryForUnobserved ==
  [][EntriesDelivered \subseteq visibilityManager.elements]_vars

\* the part of C36 that the code keeps: with no flush mode the buffer is
\* empty whenever unobserve can be called
C36_NoneKeepsNothing ==
  opts.vmMode = "none" => visibilityManager.buffer = << >>

\* ------------------------------- the web extension's background recorder
\* web-extension/src/background/index.ts.  Every handler is an async function:
\* it runs from one await to the next without interruption, and between two
\* awaits any other handler may run.  An invocation that waits is a record of
\* `handlers`: the handler it belongs to, the await it waits at ("pc") and its
\* locals.  Timestamps: 0 stands for undefined.  Channel (requestToTab,
\* getCurrentTabId) and the storage functions are not part of the sources;
\* a request to a tab that is closed, or to tab -1, is rejected, and a request
\* to an open tab is answered or rejected as the environment decides; a tab
\* that rejects has no content script recording in it.
Paused == {"PAUSED", "PAUSED_SWITCH"}

Invocation(name, pc, tab) ==
  [name |-> name, pc |-> pc, tab |-> tab, newTabId |-> -1, newStatus |-> "-",
   pausedTimestamp |-> 0, pausedTime |-> 0, atStop |-> << >>, session |-> 0]

\* an invocation that has returned
Returned == Invocation("-", "returned", -1)

\* the invocations that wait at an await of a handler
Waiting(name, pc) ==
  {i \in DOMAIN handlers : handlers[i].name \in name /\ handlers[i].pc = pc}

Remove(q, i) == [j \in 1..(Len(q) - 1) |-> IF j < i THEN q[j] ELSE q[j + 1]]

\* the background state after a step of invocation i (Len(handlers) + 1: a new
\* invocation), which goes on as h
Goes(i, st, ev, h, ss, br) ==
  /\ recorderStatus' = st
  /\ events' = ev
  /\ sessions' = ss
  /\ browser' = br
  /\ handlers' = IF i > Len(handlers)
                 THEN IF h.pc = "returned" THEN handlers ELSE Append(handlers, h)
                 ELSE IF h.pc = "returned" THEN Remove(handlers, i)
                 ELSE [handlers EXCEPT ![i] = h]
  /\ invoked' = IF i > Len(handlers) THEN invoked + 1 ELSE invoked
  /\ UNCHANGED << dateNow, recorderVars, apiVars, documentAccessible >>

\* a new invocation, made while fewer than bound.invocations were made
New == Len(handlers) + 1
MayInvoke == invoked < bound.invocations

\* events.forEach((event) => { event.timestamp += dt })
Shift(ev, dt) == [i \in DOMAIN ev |-> [ev[i] EXCEPT !.timestamp = @ + dt]]

\* variant of the advance of resumeRecording: the pause is measured from the
\* start of the recording
ResumeAdvance_FromStart(ev, h) ==
  LET pausedTime == dateNow - 1
  IN [ev |-> Shift(ev, pausedTime),
      h |-> [h EXCEPT !.pc = "resume.StartRecord", !.pausedTime = pausedTime]]

\* background/index.ts:181-191  resumeRecording from pausedTime to the
\* StartRecord request
ResumeAdvance(ev, h) ==
  LET pausedTime == IF h.pausedTimestamp # 0 THEN dateNow - h.pausedTimestamp ELSE 0
  IN [ev |-> Shift(ev, pausedTime),
      h |-> [h EXCEPT !.pc = "resume.StartRecord", !.pausedTime = pausedTime]]

\* background/index.ts:170-191  resumeRecording(newTabId) up to its first await
ResumeRecording(st, ev, h, newTabId) ==
  LET h1 == [h EXCEPT !.tab = newTabId, !.pausedTimestamp = st.pausedTimestamp]
  IN IF st.status \notin Paused THEN [ev |-> ev, h |-> Returned]
     ELSE IF browser.isFirefox THEN [ev |-> ev, h |-> [h1 EXCEPT !.pc = "setTimeout"]]
     ELSE ResumeAdvance(ev, h1)

\* a step that runs resumeRecording up to its first await
GoesResuming(i, r) == Goes(i, recorderStatus, r.ev, r.h, sessions, browser)

\* whether the tab answers a request: never when it is closed or is no tab
Answers(tab) == {ok \in BOOLEAN : ok => tab \in browser.open}

\* ---- StartButtonClicked, background/index.ts:43-77
StartButtonClicked ==
  /\ MayInvoke
  /\ recorderStatus.status = "IDLE"
  /\ Goes(New, [status |-> "IDLE", activeTabId |-> -1, pausedTimestamp |-> 0],
          events, Invocation("StartButtonClicked", "storage.set", -1),
          sessions, browser)

\* lines 54-56: the list is cleared, the id of the active tab is asked for
StartClears ==
  \E i \in Waiting({"StartButtonClicked"}, "storage.set") :
    Goes(i, recorderStatus, << >>, [handlers[i] EXCEPT !.pc = "getCurrentTabId"],
         sessions, browser)

\* lines 56-62: no tab, or the StartRecord request to the tab
StartRequests ==
  \E i \in Waiting({"StartButtonClicked"}, "getCurrentTabId") :
    Goes(i, recorderStatus, events,
         IF browser.current = -1 THEN Returned
         ELSE [handlers[i] EXCEPT !.pc = "StartRecord", !.tab = browser.current],
         sessions, browser)

\* lines 62-76: the tab has started to record, or the request was rejected
StartAnswered ==
  \E i \in Waiting({"StartButtonClicked"}, "StartRecord") :
    \E ok \in Answers(handlers[i].tab) :
      IF ok
      THEN Goes(i, [recorderStatus EXCEPT !.status = "RECORDING",
                                          !.activeTabId = handlers[i].tab],
                events, Returned, sessions,
                [browser EXCEPT !.recording = @ \cup {handlers[i].tab}])
      ELSE Goes(i, recorderStatus, events, Returned, sessions, browser)

\* ---- StopButtonClicked, background/index.ts:79-142
Idle == [status |-> "IDLE", activeTabId |-> -1, pausedTimestamp |-> 0]

StopButtonClicked ==
  /\ MayInvoke
  /\ recorderStatus.status # "IDLE"
  /\ IF recorderStatus.status = "RECORDING"
     THEN Goes(New, recorderStatus, events,
               [Invocation("StopButtonClicked", "StopRecord", recorderStatus.activeTabId)
                  EXCEPT !.atStop = events],
               sessions, browser)
     ELSE Goes(New, Idle, events,
               [Invocation("StopButtonClicked", "storage.set", -1)
                  EXCEPT !.atStop = events],
               sessions, browser)

\* lines 84-98: the tab has stopped, or the request was rejected (no content
\* script is left in the tab to answer); the status is reset either way
StopAnswered ==
  \E i \in Waiting({"StopButtonClicked"}, "StopRecord") :
    Goes(i, Idle, events,
         [handlers[i] EXCEPT !.pc = "storage.set", !.atStop = events],
         sessions, [browser EXCEPT !.recording = @ \ {handlers[i].tab}])

\* lines 99-116: after storage.set and tabs.query, addSession(newSession, events)
StopAddsSession ==
  \E i \in Waiting({"StopButtonClicked"}, "storage.set") :
    Goes(i, recorderStatus, events,
         [handlers[i] EXCEPT !.pc = "addSession", !.session = Len(sessions) + 1],
         Append(sessions, [received |-> handlers[i].atStop, stored |-> events,
                           sent |-> << >>, isSent |-> FALSE]),
         browser)

\* lines 118-121: apiClient.sendSession(newSession, events)
StopSendsSession ==
  \E i \in Waiting({"StopButtonClicked"}, "addSession") :
    Goes(i, recorderStatus, events, [handlers[i] EXCEPT !.pc = "sendSession"],
         [sessions EXCEPT ![handlers[i].session] =
            [@ EXCEPT !.sent = events, !.isSent = TRUE]],
         browser)

\* lines 122-141: after sendSession and updateSession, the list is cleared
StopClears ==
  \E i \in Waiting({"StopButtonClicked"}, "sendSession") :
    Goes(i, recorderStatus, << >>, Returned, sessions, browser)

\* ---- pauseRecording, background/index.ts:144-163
PauseRecording(i, name, newTabId, newStatus, br) ==
  IF recorderStatus.status # "RECORDING" \/ recorderStatus.activeTabId = -1
  THEN Goes(i, recorderStatus, events, Returned, sessions, br)
  ELSE Goes(i, recorderStatus, events,
            [Invocation(name, "pause.StopRecord", recorderStatus.activeTabId)
               EXCEPT !.newTabId = newTabId, !.newStatus = newStatus],
            sessions, br)

\* lines 164-167
PauseButtonClicked ==
  /\ MayInvoke
  /\ recorderStatus.status = "RECORDING"
  /\ PauseRecording(New, "PauseButtonClicked", -1, "PAUSED", browser)

\* lines 151-162: the tab has stopped (endTimestamp = Date.now()), or the
\* request was rejected (no pausedTimestamp; no content script is left in the
\* tab to answer)
PauseAnswered ==
  \E i \in Waiting({"PauseButtonClicked", "onActivated"}, "pause.StopRecord") :
    \E ok \in Answers(handlers[i].tab) :
      Goes(i, [recorderStatus EXCEPT !.status = handlers[i].newStatus,
                                     !.activeTabId = -1,
                                     !.pausedTimestamp = IF ok THEN dateNow ELSE 0],
           events,
           IF handlers[i].name = "onActivated"
           THEN [handlers[i] EXCEPT !.pc = "pause.storage.set"]
           ELSE Returned,
           sessions, [browser EXCEPT !.recording = @ \ {handlers[i].tab}])

\* ---- ResumeButtonClicked, background/index.ts:212-220
ResumeButtonClicked ==
  /\ MayInvoke
  /\ recorderStatus.status = "PAUSED"
  /\ Goes(New, recorderStatus, events,
          Invocation("ResumeButtonClicked", "storage.set", -1), sessions, browser)

\* lines 218-219: after storage.set and getCurrentTabId, resumeRecording(tabId)
ResumeButtonResumes ==
  \E i \in Waiting({"ResumeButtonClicked"}, "storage.set") :
    GoesResuming(i, ResumeRecording(recorderStatus, events, handlers[i],
                                    browser.current))

\* ---- resumeRecording, background/index.ts:170-211
\* line 180: the timer of the Firefox delay has fired
ResumeDelayed ==
  \E i \in Waiting({"ResumeButtonClicked", "onActivated", "onUpdated"}, "setTimeout") :
    GoesResuming(i, ResumeAdvance(events, handlers[i]))

\* lines 186-210: the tab has started to record, or the request was rejected
ResumeAnswered ==
  \E i \in Waiting({"ResumeButtonClicked", "onActivated", "onUpdated"},
                   "resume.StartRecord") :
    \E ok \in Answers(handlers[i].tab) :
      IF ok
      THEN Goes(i, [status |-> "RECORDING", activeTabId |-> handlers[i].tab,
                    pausedTimestamp |-> 0],
                events, Returned, sessions,
                [browser EXCEPT !.recording = @ \cup {handlers[i].tab}])
      ELSE Goes(i, recorderStatus, Shift(events, 0 - handlers[i].pausedTime),
                Returned, sessions, browser)

\* ---- ContentScriptEmitEvent, background/index.ts:222-224: a tab whose
\* content script records sends an event
ContentScriptEmitEvent ==
  /\ browser.emitted < bound.events
  /\ browser.recording # {}
  /\ events' = Append(events, [n |-> browser.emitted + 1, received |-> dateNow,
                               timestamp |-> dateNow])
  /\ browser' = [browser EXCEPT !.emitted = @ + 1]
  /\ UNCHANGED << recorderStatus, handlers, invoked, sessions, dateNow,
                  recorderVars, apiVars, documentAccessible >>

\* ---- tabs.onActivated, background/index.ts:227-241: the user switches to
\* another open tab
TabActivated ==
  /\ MayInvoke
  /\ \E tab \in browser.open \ {browser.current} :
       LET br == [browser EXCEPT !.current = tab]
       IN IF \/ recorderStatus.status \notin {"RECORDING", "PAUSED_SWITCH"}
             \/ tab = recorderStatus.activeTabId
          THEN Goes(New, recorderStatus, events, Returned, sessions, br)
          ELSE IF recorderStatus.status = "RECORDING"
          THEN PauseRecording(New, "onActivated", tab, "PAUSED_SWITCH", br)
          ELSE LET r == ResumeRecording(recorderStatus, events,
                                        Invocation("onActivated", "-", -1), tab)
               IN Goes(New, recorderStatus, r.ev, r.h, sessions, br)

\* lines 237-238: pauseRecording has returned
ActivatedResumes ==
  \E i \in Waiting({"onActivated"}, "pause.storage.set") :
    IF recorderStatus.status = "PAUSED_SWITCH"
    THEN GoesResuming(i, ResumeRecording(recorderStatus, events, handlers[i],
                                         handlers[i].newTabId))
    ELSE Goes(i, recorderStatus, events, Returned, sessions, browser)

\* ---- tabs.onUpdated, background/index.ts:244-252: a tab has loaded
TabUpdated ==
  /\ MayInvoke
  /\ recorderStatus.status = "PAUSED_SWITCH"
  /\ \E tab \in browser.open \ {recorderStatus.activeTabId} :
       LET r == ResumeRecording(recorderStatus, events,
                                Invocation("onUpdated", "-", -1), tab)
       IN Goes(New, recorderStatus, r.ev, r.h, sessions, browser)

\* variant of the onRemoved listener: the closed tab stays the active tab of
\* the paused recording
TabRemoved_KeepsTab ==
  /\ MayInvoke
  /\ \E tab \in browser.open :
       Goes(New,
            IF recorderStatus.activeTabId = tab /\ recorderStatus.status = "RECORDING"
            THEN [status |-> "PAUSED_SWITCH", activeTabId |-> tab,
                  pausedTimestamp |-> dateNow]
            ELSE recorderStatus,
            events, Returned, sessions,
            [browser EXCEPT !.open = @ \ {tab}, !.recording = @ \ {tab},
                            !.current = IF @ = tab THEN -1 ELSE @])

\* ---- tabs.onRemoved, background/index.ts:257-275: a tab is closed
TabRemoved ==
  /\ MayInvoke
  /\ \E tab \in browser.open :
       Goes(New,
            IF recorderStatus.activeTabId = tab /\ recorderStatus.status = "RECORDING"
            THEN [status |-> "PAUSED_SWITCH", activeTabId |-> -1,
                  pausedTimestamp |-> dateNow]
            ELSE recorderStatus,
            events, Returned, sessions,
            [browser EXCEPT !.open = @ \ {tab}, !.recording = @ \ {tab},
                            !.current = IF @ = tab THEN -1 ELSE @])

\* Date.now() moves on
ClockTick ==
  /\ dateNow < bound.clock
  /\ dateNow' = dateNow + 1
  /\ UNCHANGED << recorderStatus, events, handlers, invoked, sessions, browser,
                  recorderVars, apiVars, documentAccessible >>

\* Every handler of the background script, the tabs being activated, updated
\* and closed; no content script sends an event and the clock stands still.
BoundBackground ==
  [sink |-> 0, queue |-> 0, records |-> 0, time |-> 0, delays |-> {0},
   tags |-> {}, extras |-> 0, invocations |-> MaxInvocations, events |-> 0,
   clock |-> 1]

BackgroundInit(b) ==
  /\ RecorderAtLoad(Opt(0, 0, 0, TRUE, "after", "load", "disabled"), b,
                    "complete", <<Element({})>>)
  /\ ApiAtLoad("jwt", TRUE, 0)
  /\ \E isFirefox \in BOOLEAN : BackgroundAtLoad(isFirefox)

InitBackground == BackgroundInit(BoundBackground)

NextBackground ==
  \/ StartButtonClicked
  \/ StartClears
  \/ StartRequests
  \/ StartAnswered
  \/ StopButtonClicked
  \/ StopAnswered
  \/ StopAddsSession
  \/ StopSendsSession
  \/ StopClears
  \/ PauseButtonClicked
  \/ PauseAnswered
  \/ ResumeButtonClicked
  \/ ResumeButtonResumes
  \/ ResumeDelayed
  \/ ResumeAnswered
  \/ TabActivated
  \/ ActivatedResumes
  \/ TabUpdated
  \/ TabRemoved

SpecBackground == InitBackground /\ [][NextBackground]_vars

\* A recording being paused and resumed, by the buttons and by tabs being
\* activated and updated, while content scripts send events and the clock runs.
BoundResume ==
  [sink |-> 0, queue |-> 0, records |-> 0, time |-> 0, delays |-> {0},
   tags |-> {}, extras |-> 0, invocations |-> MaxInvocationsResume,
   events |-> MaxEventsResume, clock |-> MaxClock]

InitResume == BackgroundInit(BoundResume)

NextResume ==
  \/ StartButtonClicked
  \/ StartClears
  \/ StartRequests
  \/ StartAnswered
  \/ PauseButtonClicked
  \/ PauseAnswered
  \/ ResumeButtonClicked
  \/ ResumeButtonResumes
  \/ ResumeDelayed
  \/ ResumeAnswered
  \/ ContentScriptEmitEvent
  \/ TabActivated
  \/ ActivatedResumes
  \/ TabUpdated
  \/ ClockTick

SpecResume == InitResume /\ [][NextResume]_vars

\* Recordings being started and stopped by the buttons while content scripts
\* send events; the clock stands still.
BoundSave ==
  [sink |-> 0, queue |-> 0, records |-> 0, time |-> 0, delays |-> {0},
   tags |-> {}, extras |-> 0, invocations |-> MaxInvocationsSave,
   events |-> MaxEvents, clock |-> 1]

InitSave == BackgroundInit(BoundSave)

NextSave ==
  \/ StartButtonClicked
  \/ StartClears
  \/ StartRequests
  \/ StartAnswered
  \/ StopButtonClicked
  \/ StopAnswered
  \/ StopAddsSession
  \/ StopSendsSession
  \/ StopClears
  \/ ContentScriptEmitEvent

SpecSave == InitSave /\ [][NextSave]_vars

\* ------------------------------------------------------------------- C37
\* C37: in every reachable state of the background recorder, whatever the
\* interleaving of the handlers at their awaits, status = RECORDING implies
\* activeTabId # -1, and any other status implies activeTabId = -1.
C37_StatusMatchesActiveTab ==
  /\ recorderStatus.status \in {"IDLE", "RECORDING", "PAUSED", "PAUSED_SWITCH"}
  /\ recorderStatus.status = "RECORDING" <=> recorderStatus.activeTabId # -1

\* a recording was resumed on the second tab while the Stop handler of the
\* same recording waits for the tab to answer
C37_Witness ==
  /\ recorderStatus.status = "RECORDING" /\ recorderStatus.activeTabId = 2
  /\ Waiting({"StopButtonClicked"}, "StopRecord") # {}
  /\ invoked >= 3

\* ------------------------------------------------------------------- C33
\* the invocations that reach the StartRecord request of resumeRecording in
\* this step, and the one whose request is settled in this step
Advancing ==
  {j \in DOMAIN handlers' :
     /\ handlers'[j].pc = "resume.StartRecord"
     /\ Len(handlers') >= Len(handlers)
     /\ (j > Len(handlers) \/ handlers[j].pc # "resume.StartRecord")}

Settling ==
  {i \in DOMAIN handlers :
     /\ handlers[i].pc = "resume.StartRecord"
     /\ handlers' = Remove(handlers, i)}

Resumed ==
  \E i \in Settling : /\ recorderStatus'.status = "RECORDING"
                      /\ events' = events
                      /\ recorderStatus' # recorderStatus

\* C38: for one pause of the recording the timestamps are advanced exactly
\* once and exactly one tab ends up recording, however the calls of
\* resumeRecording interleave: a call that starts a tab finds the recording
\* still paused and no other call between its advance and its answer, and no
\* event ever carries a timestamp later than the clock.
C38_ResumedOncePerPause ==
  /\ [](\A i \in DOMAIN events : events[i].timestamp <= dateNow)
  /\ [][Resumed => /\ recorderStatus.status \in Paused
                   /\ Cardinality(Waiting({"ResumeButtonClicked", "onActivated",
                                           "onUpdated"}, "resume.StartRecord")) = 1]_vars

\* ------------------------------------------------------------------- C39
\* C39: the events stored and sent for a stopped session are exactly the
\* events received between that session's start and its stop (the list as it
\* was when Stop reset the status), however Start and Stop interleave.
C39_SessionHoldsItsEvents ==
  \A k \in DOMAIN sessions :
    /\ sessions[k].stored = sessions[k].received
    /\ sessions[k].isSent => sessions[k].sent = sessions[k].received

\* the other half of C39: the final clearing of the list by Stop removes no
\* event received after a later Start has cleared the list
C39_ClearingKeepsLaterEvents ==
  [][\A i \in Waiting({"StopButtonClicked"}, "sendSession") :
       (handlers' = Remove(handlers, i) /\ events' = << >>)
         => \A j \in DOMAIN events :
              \E k \in DOMAIN handlers[i].atStop : handlers[i].atStop[k].n = events[j].n]_vars

\* ------------------------------------------------------------------- C40
\* The API client with a server and a storage that answer: every request on
\* the wire is answered in the end (a response, or the network error or
\* timeout axios rejects with), and Browser.storage.sync.set completes.
SpecApiFair ==
  /\ SpecApi
  /\ WF_vars(Respond)
  /\ WF_vars(RespondRefresh)
  /\ WF_vars(Stored)

\* C40: every request answered with 401 under JWT authentication settles in
\* the end, whether the refresh succeeds or fails (the refresh request itself
\* included), and isRefreshing is false again in the end.
C40_EveryRequestSettles ==
  /\ \A r \in 0..MaxRequests :
       (requests[r].phase \in {"inflight", "refreshing", "subscribed", "storing"})
         ~> (requests[r].phase \in {"done", "idle"})
  /\ isRefreshing ~> ~isRefreshing

====
